---- MODULE Spec2Model ----
\* Model of the vidler job orchestration engine: the Runtime composition root,
\* the WorkerPool retry/backoff loop, RuntimeJobRunner.runJob and the
\* subprocess handling of YtDlpStrategy.download.
\*
\* One action is one event-loop turn of the Node.js program: a handler
\* (timer callback, child-process event, readline 'line' event) together with
\* the promise continuations it makes runnable, which run to completion before
\* the next handler is dispatched.
EXTENDS Integers, Sequences, FiniteSets, TLC

\* ---------------------------------------------------------------- bounds
MaxJobs == 2          \* longest job list handed to createRuntime
MaxRetries == 1       \* largest retry budget
MaxConcurrency == 2   \* largest configured concurrency
MaxLines == 1         \* output lines printed by the subprocesses of one job
PoolJobs == 3         \* jobs of a run that leaves a job queued behind two workers

\* ------------------------------------------------------------- helpers
Max(a, b) == IF a >= b THEN a ELSE b
Min(a, b) == IF a <= b THEN a ELSE b

RECURSIVE SeqsUpTo(_, _)
SeqsUpTo(S, n) ==
    IF n = 0 THEN {<<>>}
    ELSE LET shorter == SeqsUpTo(S, n - 1)
         IN shorter \cup {Append(s, x) : s \in {t \in shorter : Len(t) = n - 1}, x \in S}

\* ------------------------------------------------------------- domain
\* ProviderKind of a job; youtube is handled by a provider-bound adapter,
\* generic falls through to the fallback adapter.
Providers == {"youtube", "generic"}

\* stderr lines a subprocess may print
StderrVocabulary == {"ERROR: Connection reset by peer", "ERROR: permission denied"}

\* exit codes of a subprocess
ExitCodes == {0, 1}

\* the texts of the model that contain a signal of retryableSignals or of
\* retryablePatterns, lower-cased; no other text of the model contains one
IncludesTable ==
    {<<"ERROR: Connection reset by peer", "connection reset">>,
     <<"ERROR: read ECONNRESET", "econnreset">>,
     <<"ERROR: HTTP Error 503: Service Unavailable", "http error 5">>,
     <<"ERROR: Temporary failure in name resolution", "temporary failure">>,
     <<"ERROR: The read operation timed out", "timed out">>,
     <<"Download timed out", "timed out">>,
     <<"read ECONNRESET", "econnreset">>,
     <<"HTTP Error 503: Service Unavailable", "http error 5">>}

\* text.toLowerCase().includes(signal), for a text of the table on its own or
\* behind the prefix buildYtDlpErrorMessage puts before a stderr line
LineIncludes(text, signal) ==
    \E p \in IncludesTable :
        /\ p[2] = signal
        /\ \/ text = p[1]
           \/ \E c \in ExitCodes :
                 text = "yt-dlp failed with exit code " \o ToString(c) \o ": " \o p[1]

\* stderrLines.slice(-5)
StderrSnippet(lines) ==
    IF Len(lines) <= 5 THEN lines ELSE SubSeq(lines, Len(lines) - 4, Len(lines))

retryableSignals ==
    {"timed out", "timeout", "connection reset", "temporary failure", "http error 5", "dns"}

\* variant: any output on the error stream counts as a transient signal
isRetryableStderrAnyOutput(snippet) == Len(snippet) > 0

isRetryableStderr(snippet) ==
    \E i \in 1..Len(snippet) : \E s \in retryableSignals : LineIncludes(snippet[i], s)

\* new DownloadError(message, retryable)
DownloadError(message, retryable) ==
    [vidler |-> TRUE, isError |-> TRUE, retryable |-> retryable, message |-> message]

retryablePatterns ==
    {"timeout", "timed out", "temporary failure", "connection reset",
     "econnreset", "econnrefused", "5xx", "dns"}

isRetryableErrorFlagDropped(error) ==
    IF error.vidler THEN FALSE
    ELSE IF ~error.isError THEN FALSE
    ELSE \E p \in retryablePatterns : LineIncludes(error.message, p)

isRetryableErrorAnyError(error) == error.isError

isRetryableError(error) ==
    IF error.vidler THEN error.retryable
    ELSE IF ~error.isError THEN FALSE
    ELSE \E p \in retryablePatterns : LineIncludes(error.message, p)

\* variant: the worker count is not raised to at least one
WorkerCountUnclamped(concurrency, n) ==
    Min(concurrency, IF n = 0 THEN 1 ELSE n)

WorkerCountMinMaxSwapped(concurrency, n) ==
    Max(1, Max(concurrency, IF n = 0 THEN 1 ELSE n))

\* Math.max(1, Math.min(concurrency, queue.length || 1))
WorkerCount(concurrency, n) ==
    Max(1, Min(concurrency, IF n = 0 THEN 1 ELSE n))

MaxAttemptsNoBudget(retries) == Max(1, retries)

MaxAttemptsOffByOne(retries) == Max(1, retries + 2)

\* Math.max(1, retries + 1)
MaxAttempts(retries) == Max(1, retries + 1)

IsLastAttemptStrict(attempt, maxAttempts) == attempt > maxAttempts

\* const isLastAttempt = attempt >= maxAttempts
IsLastAttempt(attempt, maxAttempts) == attempt >= maxAttempts

\* attempt numbers for which the model keeps a subprocess slot
AttemptBound == MaxRetries + 2

\* job ids for which the model keeps state
JobSlots == IF MaxJobs >= PoolJobs THEN MaxJobs ELSE PoolJobs

\* --------------------------------------------------------------- state
VARIABLES
    cfg,          \* RuntimeConfig: jobs, concurrency, retries, timeoutSec, emitLogs
    runPromise,   \* createRuntime's runPromise: "none", "pending", "resolved"
    queue,        \* WorkerPool.run: queue (job ids)
    results,      \* WorkerPool.run: results
    workerCount,  \* WorkerPool.run: workerCount
    wpc,          \* per worker: "awaiting" (runJob pending), "backoff", "done"
    wjob,         \* per worker: job being run
    wattempt,     \* per worker: attempt of #runWithRetry's loop
    child,        \* per job, per attempt: subprocess state
    nlines,       \* per job: lines its subprocesses have printed so far
    stderrLines,  \* per job: stderrLines of the current download call
    timer,        \* per job: timeoutId of the current download call is armed
    ev,           \* per job: lifecycle events emitted by the pool, in order
    outcomes,     \* per job: how each runJob call settled, in order
    startOrder,   \* job ids in the order of their jobStarted{attempt: 1} events
    side          \* state of the program outside the pool: cli main and the
                  \* BinaryManager, or the call under study of a pure function

poolVars == <<cfg, runPromise, queue, results, workerCount, wpc, wjob, wattempt,
              child, nlines, stderrLines, timer, ev, outcomes, startOrder>>

vars == <<poolVars, side>>

Jobs == 1..Len(cfg.jobs)
Workers == 1..workerCount

Ev(k, a, d) == [k |-> k, a |-> a, d |-> d]

\* does the adapter resolved for job j forward the log sink to download?
\* bindStrategyToProviders.download passes (prepared, emit) only.
BoundAdapter(j) == cfg.jobs[j] \in {"youtube", "tiktok", "facebook"}
LogSink(j) == cfg.emitLogs /\ ~BoundAdapter(j)

\* the job lists of the model: up to MaxJobs jobs, provider-bound and generic
\* jobs alternating, starting with either
JobLists ==
    {s \in SeqsUpTo(Providers, MaxJobs) : \A i \in 1..(Len(s) - 1) : s[i] # s[i + 1]}

\* the pool before run: nothing queued, no worker, nothing emitted
PoolIdle ==
    /\ runPromise = "none"
    /\ queue = <<>>
    /\ results = <<>>
    /\ workerCount = 0
    /\ wpc = <<>>
    /\ wjob = <<>>
    /\ wattempt = <<>>
    /\ child = [j \in 1..JobSlots |-> [a \in 1..AttemptBound |-> "none"]]
    /\ nlines = [j \in 1..JobSlots |-> 0]
    /\ stderrLines = [j \in 1..JobSlots |-> <<>>]
    /\ timer = [j \in 1..JobSlots |-> FALSE]
    /\ ev = [j \in 1..JobSlots |-> <<>>]
    /\ outcomes = [j \in 1..JobSlots |-> <<>>]
    /\ startOrder = <<>>

Init ==
    /\ cfg \in [jobs : JobLists,
                concurrency : 0..MaxConcurrency,
                retries : 0..MaxRetries,
                timeoutSec : {0, 1},
                emitLogs : BOOLEAN]
    /\ PoolIdle
    /\ side = [at |-> "runtime"]

\* ------------------------------------------------------- pool helpers
ShiftFromBack(q) == [job |-> q[Len(q)], rest |-> SubSeq(q, 1, Len(q) - 1)]

ShiftKeepsJob(q) == [job |-> Head(q), rest |-> q]

\* const job = queue.shift()
Shift(q) == [job |-> Head(q), rest |-> Tail(q)]

\* the synchronous start of run: each of n workers in turn enters its loop
\* and, if the queue is not empty, shifts one job
RECURSIVE ShiftEach(_, _)
ShiftEach(q, n) ==
    IF n = 0 \/ q = <<>> THEN [jobs |-> <<>>, rest |-> q]
    ELSE LET r == ShiftEach(Shift(q).rest, n - 1)
         IN [jobs |-> <<Shift(q).job>> \o r.jobs, rest |-> r.rest]

timeoutArmed == cfg.timeoutSec # 0

SleepSuspendsPool(w, v) == TRUE

\* await delay(nextDelayMs) in worker w's async function: does it keep the
\* continuation of worker v from running? The sleep is a setTimeout behind a
\* promise, so only w's own continuation waits for it.
SleepSuspends(w, v) == v = w

\* no sleeping worker keeps worker v from running its continuation
Runnable(v) == \A w \in Workers : wpc[w] = "backoff" => ~SleepSuspends(w, v)

\* variant: the invocation is prepared once, in the first attempt, and the
\* later attempts go straight on with it
StartEventsPreparedOnce(j, a) ==
    <<Ev("started", a, cfg.jobs[j])>>
        \o (IF a = 1 THEN <<Ev("progress", 0, "preparing")>> ELSE <<>>)
        \o (IF cfg.emitLogs /\ a = 1 THEN <<Ev("log", 0, "system")>> ELSE <<>>)

\* events of one pass through the head of #runWithRetry's loop body and of
\* runJob up to the spawn: jobStarted, jobProgress{preparing}, jobLog{system}
StartEvents(j, a) ==
    <<Ev("started", a, cfg.jobs[j]), Ev("progress", 0, "preparing")>>
        \o (IF cfg.emitLogs THEN <<Ev("log", 0, "system")>> ELSE <<>>)

\* the worker whose runJob call for job j is pending, 0 if none
Pending(j) ==
    IF \E w \in Workers : wjob[w] = j /\ wpc[w] = "awaiting"
    THEN CHOOSE w \in Workers : wjob[w] = j /\ wpc[w] = "awaiting"
    ELSE 0

Alive(j, a) == child[j][a] \in {"spawned", "running", "killed"}

\* #runWithRetry returns res for worker w's job; the worker pushes it and
\* loops: takes the next job of the queue and runs it up to its spawn, or
\* leaves the loop, and Promise.all resolves once every worker has left.
Terminal(w, evs, res, ch) ==
    LET j == wjob[w] IN
    /\ results' = Append(results, res)
    /\ IF queue # <<>>
       THEN LET j2 == Shift(queue).job IN
            /\ queue' = Shift(queue).rest
            /\ startOrder' = Append(startOrder, j2)
            /\ wjob' = [wjob EXCEPT ![w] = j2]
            /\ wattempt' = [wattempt EXCEPT ![w] = 1]
            /\ wpc' = [wpc EXCEPT ![w] = "awaiting"]
            /\ ev' = [ev EXCEPT ![j] = @ \o evs, ![j2] = @ \o StartEvents(j2, 1)]
            /\ child' = [ch EXCEPT ![j2][1] = "spawned"]
            /\ timer' = [timer EXCEPT ![j] = FALSE, ![j2] = timeoutArmed]
            /\ stderrLines' = [stderrLines EXCEPT ![j] = <<>>, ![j2] = <<>>]
            /\ UNCHANGED runPromise
       ELSE /\ wpc' = [wpc EXCEPT ![w] = "done"]
            /\ runPromise' = IF runPromise = "pending"
                                    /\ \A v \in Workers \ {w} : wpc[v] = "done"
                             THEN "resolved" ELSE runPromise
            /\ ev' = [ev EXCEPT ![j] = @ \o evs]
            /\ child' = ch
            /\ timer' = [timer EXCEPT ![j] = FALSE]
            /\ stderrLines' = [stderrLines EXCEPT ![j] = <<>>]
            /\ UNCHANGED <<queue, wjob, wattempt, startOrder>>

\* an error leaves #runWithRetry: worker w's async function ends with it and
\* Promise.all, and so run, rejects; the other workers run on
Escapes(w, evs, ch) ==
    LET j == wjob[w] IN
    /\ runPromise' = "rejected"
    /\ wpc' = [wpc EXCEPT ![w] = "done"]
    /\ ev' = [ev EXCEPT ![j] = @ \o evs]
    /\ child' = ch
    /\ timer' = [timer EXCEPT ![j] = FALSE]
    /\ stderrLines' = [stderrLines EXCEPT ![j] = <<>>]
    /\ UNCHANGED <<queue, results, wjob, wattempt, startOrder>>

\* error instanceof Error ? error.message : "Unknown download failure"
Reason(error) == IF error.isError THEN error.message ELSE "Unknown download failure"

CatchDecisionRethrowsUnknown(error, attempt, maxAttempts) ==
    IF ~error.isError THEN "throw"
    ELSE IF isRetryableError(error) /\ ~IsLastAttempt(attempt, maxAttempts)
    THEN "retry" ELSE "fail"

\* the catch block of #runWithRetry: retry, or fail the job; nothing in it
\* throws
CatchDecision(error, attempt, maxAttempts) ==
    IF isRetryableError(error) /\ ~IsLastAttempt(attempt, maxAttempts)
    THEN "retry" ELSE "fail"

\* variant: the close and error handlers leave the timer of a retried attempt
\* armed
CaughtKeepsTimer(w, error, evs, ch) ==
    LET j == wjob[w]
        attempt == wattempt[w]
        decision == CatchDecision(error, attempt, MaxAttempts(cfg.retries))
    IN
    IF decision = "retry"
    THEN /\ ev' = [ev EXCEPT ![j] = @ \o evs \o <<Ev("retry", attempt, Reason(error))>>]
         /\ wpc' = [wpc EXCEPT ![w] = "backoff"]
         /\ child' = ch
         /\ timer' = timer
         /\ stderrLines' = [stderrLines EXCEPT ![j] = <<>>]
         /\ UNCHANGED <<queue, results, wjob, wattempt, runPromise, startOrder>>
    ELSE IF decision = "fail"
    THEN Terminal(w, evs \o <<Ev("failed", attempt, Reason(error))>>,
                  [jobId |-> j, success |-> FALSE, attempts |-> attempt,
                   errorMessage |-> Reason(error)], ch)
    ELSE Escapes(w, evs, ch)

\* the catch block of #runWithRetry is entered by worker w with error, after
\* the events evs have been emitted in this turn
Caught(w, error, evs, ch) ==
    LET j == wjob[w]
        attempt == wattempt[w]
        decision == CatchDecision(error, attempt, MaxAttempts(cfg.retries))
    IN
    IF decision = "retry"
    THEN /\ ev' = [ev EXCEPT ![j] = @ \o evs \o <<Ev("retry", attempt, Reason(error))>>]
         /\ wpc' = [wpc EXCEPT ![w] = "backoff"]
         /\ child' = ch
         /\ timer' = [timer EXCEPT ![j] = FALSE]
         /\ stderrLines' = [stderrLines EXCEPT ![j] = <<>>]
         /\ UNCHANGED <<queue, results, wjob, wattempt, runPromise, startOrder>>
    ELSE IF decision = "fail"
    THEN Terminal(w, evs \o <<Ev("failed", attempt, Reason(error))>>,
                  [jobId |-> j, success |-> FALSE, attempts |-> attempt,
                   errorMessage |-> Reason(error)], ch)
    ELSE Escapes(w, evs, ch)

\* a listener of jobCompleted that throws, if the run has one: the error it
\* throws, in a one-element sequence
CompletedListenerError ==
    IF "completedListener" \in DOMAIN side THEN <<side.completedListener>> ELSE <<>>

\* the runJob call of worker w settles: ok, or rejected with error.
\* try/catch of #runWithRetry, then the rest of the worker's loop. The emit
\* of jobCompleted is inside the try: an error thrown by a listener lands in
\* the catch block.
\* outcomes records how the call settled: "ok", or whether the DownloadError
\* was flagged retryable by its origin ("retryable") or not ("fatal").
Settle(w, ok, error, ch) ==
    LET j == wjob[w]
        attempt == wattempt[w]
        oc == IF ok THEN "ok" ELSE IF error.retryable THEN "retryable" ELSE "fatal"
        done == <<Ev("progress", 0, "completed"), Ev("completed", attempt, "")>>
    IN
    /\ Runnable(w)
    /\ outcomes' = [outcomes EXCEPT ![j] = Append(@, oc)]
    /\ IF ~ok THEN Caught(w, error, <<>>, ch)
       ELSE IF CompletedListenerError # <<>>
       THEN Caught(w, CompletedListenerError[1], done, ch)
       ELSE Terminal(w, done,
                     [jobId |-> j, success |-> TRUE, attempts |-> attempt,
                      errorMessage |-> ""], ch)

\* ------------------------------------------------------------ listeners
\* the event names of the pool
EventName(k) ==
    CASE k = "started" -> "jobStarted"
      [] k = "progress" -> "jobProgress"
      [] k = "retry" -> "jobRetry"
      [] k = "completed" -> "jobCompleted"
      [] k = "failed" -> "jobFailed"
      [] OTHER -> "jobLog"

\* the events added to the histories by a step, in the order of emission
\* (within one step the jobs emit in the order of their index)
RECURSIVE Emitted(_, _, _)
Emitted(j, before, after) ==
    IF j > JobSlots THEN <<>>
    ELSE [i \in 1..(Len(after[j]) - Len(before[j])) |->
             [jobId |-> j, payload |-> after[j][Len(before[j]) + i]]]
         \o Emitted(j + 1, before, after)

\* variant: no listener is registered for jobRetry
attachHeadlessOutputWithoutRetry(asJson, showLogs) ==
    [events |-> {"jobStarted", "jobProgress", "jobCompleted", "jobFailed"}
                    \cup (IF showLogs THEN {"jobLog"} ELSE {}),
     format |-> IF asJson THEN "json" ELSE "plain"]

\* attachHeadlessOutput(runtime, asJson, showLogs): the events a listener is
\* registered for, and the format of the records the listeners print
attachHeadlessOutput(asJson, showLogs) ==
    [events |-> {"jobStarted", "jobProgress", "jobRetry", "jobCompleted", "jobFailed"}
                    \cup (IF showLogs THEN {"jobLog"} ELSE {}),
     format |-> IF asJson THEN "json" ELSE "plain"]

\* out(event, payload) of attachHeadlessOutput: one record per call
HeadlessRecord(listeners, emitted) ==
    [event |-> EventName(emitted.payload.k), jobId |-> emitted.jobId,
     payload |-> emitted.payload, format |-> listeners.format]

\* the records printed for a sequence of emitted events
RECURSIVE Delivered(_, _)
Delivered(listeners, emitted) ==
    IF emitted = <<>> THEN <<>>
    ELSE (IF EventName(emitted[1].payload.k) \in listeners.events
          THEN <<HeadlessRecord(listeners, emitted[1])>> ELSE <<>>)
         \o Delivered(listeners, Tail(emitted))

\* WorkerPool.emit: the listeners registered on the pool run inside the
\* emit, so what they print is written by the step that emits
Emit ==
    side' = IF "listeners" \in DOMAIN side
            THEN [side EXCEPT !.out = @ \o Delivered(side.listeners, Emitted(1, ev, ev'))]
            ELSE side

\* ------------------------------------------------------------ actions
\* runtime.start(), first call: pool.run up to the first suspension of
\* every worker. Worker i takes job i and runs it up to its spawn.
Start ==
    /\ side.at = "runtime"
    /\ runPromise = "none"
    /\ LET n == Len(cfg.jobs)
           wc == WorkerCount(cfg.concurrency, n)
           t == ShiftEach([i \in 1..n |-> i], wc)
           taken == Len(t.jobs)
           isTaken(j) == \E w \in 1..taken : t.jobs[w] = j
       IN
       /\ workerCount' = wc
       /\ queue' = t.rest
       /\ startOrder' = t.jobs
       /\ wpc' = [w \in 1..wc |-> IF w <= taken THEN "awaiting" ELSE "done"]
       /\ wjob' = [w \in 1..wc |-> IF w <= taken THEN t.jobs[w] ELSE 0]
       /\ wattempt' = [w \in 1..wc |-> IF w <= taken THEN 1 ELSE 0]
       /\ ev' = [j \in 1..JobSlots |-> IF isTaken(j) THEN StartEvents(j, 1) ELSE <<>>]
       /\ child' = [j \in 1..JobSlots |->
                      IF isTaken(j) THEN [child[j] EXCEPT ![1] = "spawned"] ELSE child[j]]
       /\ timer' = [j \in 1..JobSlots |-> isTaken(j) /\ timeoutArmed]
       /\ runPromise' = IF taken = 0 THEN "resolved" ELSE "pending"
    /\ UNCHANGED <<cfg, results, nlines, stderrLines, outcomes>>
    /\ Emit

\* setTimeout of delay(nextDelayMs) fires: `continue`, attempt++, and either
\* the next pass of the loop up to its spawn, or (attempt > maxAttempts) the
\* return after the loop, which emits no event.
BackoffDone(w) ==
    /\ wpc[w] = "backoff"
    /\ UNCHANGED <<cfg, workerCount, nlines, outcomes>>
    /\ LET j == wjob[w]
           a == wattempt[w] + 1
           maxAttempts == MaxAttempts(cfg.retries)
       IN
       IF a <= maxAttempts
       THEN /\ wattempt' = [wattempt EXCEPT ![w] = a]
            /\ wpc' = [wpc EXCEPT ![w] = "awaiting"]
            /\ ev' = [ev EXCEPT ![j] = @ \o StartEvents(j, a)]
            /\ child' = [child EXCEPT ![j][a] = "spawned"]
            /\ timer' = [timer EXCEPT ![j] = timeoutArmed]
            /\ stderrLines' = [stderrLines EXCEPT ![j] = <<>>]
            /\ UNCHANGED <<runPromise, queue, results, wjob, startOrder>>
       ELSE Terminal(w, <<>>,
                     [jobId |-> j, success |-> FALSE, attempts |-> maxAttempts,
                      errorMessage |-> "Unexpected worker pool state"], child)
    /\ Emit

\* stdoutReader 'line' handler of the subprocess of attempt a of job j
ChildStdoutLine(j, a, isProgress) ==
    /\ Alive(j, a)
    /\ nlines[j] < MaxLines
    /\ nlines' = [nlines EXCEPT ![j] = @ + 1]
    /\ child' = [child EXCEPT ![j][a] = IF @ = "killed" THEN "killed" ELSE "running"]
    /\ ev' = [ev EXCEPT ![j] = @
                \o (IF LogSink(j) THEN <<Ev("log", 0, "stdout")>> ELSE <<>>)
                \o (IF isProgress THEN <<Ev("progress", 0, "running")>> ELSE <<>>)]
    /\ UNCHANGED <<startOrder,
                   cfg, runPromise, queue, results, workerCount, wpc, wjob, wattempt,
                   stderrLines, timer, outcomes>>
    /\ Emit

\* stderrReader 'line' handler of the subprocess of attempt a of job j
ChildStderrLine(j, a, line) ==
    /\ Alive(j, a)
    /\ nlines[j] < MaxLines
    /\ nlines' = [nlines EXCEPT ![j] = @ + 1]
    /\ child' = [child EXCEPT ![j][a] = IF @ = "killed" THEN "killed" ELSE "running"]
    /\ ev' = [ev EXCEPT ![j] = @
                \o (IF LogSink(j) THEN <<Ev("log", 0, "stderr")>> ELSE <<>>)]
    /\ stderrLines' = IF Pending(j) # 0 /\ wattempt[Pending(j)] = a
                      THEN [stderrLines EXCEPT ![j] = Append(@, line)]
                      ELSE stderrLines
    /\ UNCHANGED <<startOrder,
                   cfg, runPromise, queue, results, workerCount, wpc, wjob, wattempt,
                   timer, outcomes>>
    /\ Emit
\* lines.findLast(line => line.toLowerCase().includes("error:")) ?? last line;
\* every line of the vocabulary carries "ERROR:", so the last line is the hint
getMostRelevantErrorLine(snippet) ==
    IF Len(snippet) = 0 THEN "" ELSE snippet[Len(snippet)]

buildYtDlpErrorMessage(code, snippet) ==
    IF getMostRelevantErrorLine(snippet) = ""
    THEN "yt-dlp failed with exit code " \o ToString(code)
    ELSE "yt-dlp failed with exit code " \o ToString(code) \o ": "
             \o getMostRelevantErrorLine(snippet)

\* child 'close' handler. For the pending download call it clears the timer
\* and resolves (code 0) or rejects; for a subprocess whose download call has
\* already settled the resolve/reject has no effect, whatever the code is
\* (one code stands for all of them there).
ChildClose(j, a, code) ==
    /\ Alive(j, a)
    /\ UNCHANGED <<cfg, workerCount, nlines>>
    /\ LET w == Pending(j)
           ch == [child EXCEPT ![j][a] = "exited"]
           snippet == StderrSnippet(stderrLines[j])
       IN
       IF w # 0 /\ wattempt[w] = a
       THEN Settle(w, code = 0,
                   DownloadError(buildYtDlpErrorMessage(code, snippet),
                                 isRetryableStderr(snippet)),
                   ch)
       ELSE /\ code = 0
            /\ child' = ch
            /\ UNCHANGED <<startOrder, runPromise, queue, results, wpc, wjob, wattempt,
                           stderrLines, timer, ev, outcomes>>
    /\ Emit

\* child 'error' handler: the subprocess could not be spawned
ChildError(j, a) ==
    /\ child[j][a] = "spawned"
    /\ Pending(j) # 0 /\ wattempt[Pending(j)] = a
    /\ UNCHANGED <<cfg, workerCount, nlines>>
    /\ Settle(Pending(j), FALSE, DownloadError("spawn ENOENT", TRUE),
              [child EXCEPT ![j][a] = "exited"])
    /\ Emit

TimeoutErrorNotRetryable == DownloadError("Download timed out", FALSE)

\* new DownloadError("Download timed out", true)
TimeoutError == DownloadError("Download timed out", TRUE)

\* the setTimeout callback of download: child.kill("SIGTERM") and reject.
\* The subprocess is signalled ("killed"), not awaited: it stays alive until
\* its close.
TimerFire(j) ==
    /\ timer[j]
    /\ Pending(j) # 0
    /\ UNCHANGED <<cfg, workerCount, nlines>>
    /\ Settle(Pending(j), FALSE, TimeoutError,
              [child EXCEPT ![j][wattempt[Pending(j)]] = "killed"])
    /\ Emit

Next ==
    \/ Start
    \/ \E w \in Workers : BackoffDone(w)
    \/ \E j \in Jobs, a \in 1..AttemptBound, p \in BOOLEAN : ChildStdoutLine(j, a, p)
    \/ \E j \in Jobs, a \in 1..AttemptBound, l \in StderrVocabulary : ChildStderrLine(j, a, l)
    \/ \E j \in Jobs, a \in 1..AttemptBound, c \in ExitCodes : ChildClose(j, a, c)
    \/ \E j \in Jobs, a \in 1..AttemptBound : ChildError(j, a)
    \/ \E j \in Jobs : TimerFire(j)

Spec == Init /\ [][Next]_vars
\* --------------------------------------------------- reading the events
Positions(j, kinds) == {i \in 1..Len(ev[j]) : ev[j][i].k \in kinds}
Count(j, k) == Cardinality(Positions(j, {k}))
TerminalKinds == {"completed", "failed"}

IsPoolEvent(e) == e.k \in {"started", "retry", "completed", "failed"}
\* the events #runWithRetry emits for job j, as <<kind, attempt>> pairs
PoolEvents(j) ==
    LET es == SelectSeq(ev[j], IsPoolEvent)
    IN [i \in 1..Len(es) |-> <<es[i].k, es[i].a>>]

IsLifecycleEvent(e) == e.k # "log"
\* the kinds of the lifecycle events of job j, log lines left out
LifecycleKinds(j) ==
    LET es == SelectSeq(ev[j], IsLifecycleEvent)
    IN [i \in 1..Len(es) |-> es[i].k]

\* jobs taken from the queue
Taken(j) == runPromise # "none" /\ \A i \in 1..Len(queue) : queue[i] # j
\* jobs whose worker has returned from #runWithRetry
Returned(j) == \E i \in 1..Len(results) : results[i].jobId = j

\* started(1), retry(1), started(2), ..., started(k), retry(k)
RECURSIVE RetryPrefix(_)
RetryPrefix(k) ==
    IF k = 0 THEN <<>> ELSE RetryPrefix(k - 1) \o <<(<<"started", k>>), (<<"retry", k>>)>>

AllRetryable(s) == \A i \in 1..Len(s) : s[i] = "retryable"

\* ---------------------------------------------------------------- C1
\* C1: every job handed to WorkerPool.run gets exactly one terminal event:
\* at no time has a job more than one completed/failed event, and once its
\* worker has returned from #runWithRetry (so also once run has resolved) the
\* job has exactly one.
C1_ExactlyOneTerminal ==
    \A j \in Jobs :
        /\ Cardinality(Positions(j, TerminalKinds)) <= 1
        /\ Returned(j) => Cardinality(Positions(j, TerminalKinds)) = 1
        /\ runPromise = "resolved" => Returned(j)

\* a run of two jobs has resolved, one job completed after a retry and the
\* other failed
C1_Witness ==
    /\ runPromise = "resolved"
    /\ Len(cfg.jobs) = 2
    /\ \E j \in Jobs : Count(j, "completed") = 1 /\ Count(j, "retry") = 1
    /\ \E j \in Jobs : Count(j, "failed") = 1

\* ---------------------------------------------------------------- C2
\* C2: the attempts field of the Result carried by a job's terminal event
\* equals the number of started events emitted for the job, and is at most
\* retries + 1; the Result pushed to results carries the same number.
C2_AttemptsEqualsStarted ==
    \A j \in Jobs :
        /\ \A i \in Positions(j, TerminalKinds) :
              /\ ev[j][i].a = Count(j, "started")
              /\ ev[j][i].a <= cfg.retries + 1
        /\ \A i \in 1..Len(results) :
              results[i].jobId = j =>
                  /\ results[i].attempts = Count(j, "started")
                  /\ results[i].attempts <= cfg.retries + 1

\* a job reached its terminal event on its second attempt
C2_Witness ==
    \E j \in Jobs : \E i \in Positions(j, TerminalKinds) :
        ev[j][i].a = 2 /\ Count(j, "started") = 2 /\ Returned(j)
\* ---------------------------------------------------------------- C3
\* the automaton of started progress* (retry started progress*)* (completed | failed)
LifecycleStep(q, k) ==
    CASE q = "init" /\ k = "started" -> "attempt"
      [] q = "attempt" /\ k = "progress" -> "attempt"
      [] q = "attempt" /\ k = "retry" -> "retry"
      [] q = "attempt" /\ k \in TerminalKinds -> "end"
      [] q = "retry" /\ k = "started" -> "attempt"
      [] OTHER -> "bad"

RECURSIVE LifecycleRun(_, _)
LifecycleRun(q, ks) ==
    IF ks = <<>> THEN q ELSE LifecycleRun(LifecycleStep(q, Head(ks)), Tail(ks))

\* C3: the lifecycle events of a single job always follow
\* started progress* (retry started progress*)* (completed | failed): what has
\* been emitted so far is a prefix of such a sequence (so no progress lies
\* between a retry and the next started), and it is a complete one once the
\* job's worker has returned.
C3_LifecycleOrder ==
    \A j \in Jobs :
        /\ LifecycleRun("init", LifecycleKinds(j)) # "bad"
        /\ Returned(j) => LifecycleRun("init", LifecycleKinds(j)) = "end"

\* ---------------------------------------------------------------- C4
\* C4: once a job's terminal event has been emitted, no further event of any
\* kind is emitted for the job: the terminal event is the last of its events.
C4_NothingAfterTerminal ==
    \A j \in Jobs : \A i \in Positions(j, TerminalKinds) : i = Len(ev[j])

\* ---------------------------------------------------------------- C5
InFlight == {j \in Jobs : Taken(j) /\ Positions(j, TerminalKinds) = {}}

\* C5: the number of jobs taken from the queue that have not reached their
\* terminal event is at most max(1, min(configured concurrency, job count or 1)),
\* also for a configured concurrency of 0 and for an empty job list.
C5_InFlightBounded ==
    Cardinality(InFlight) <=
        (LET n == Len(cfg.jobs)
             m == IF cfg.concurrency <= (IF n = 0 THEN 1 ELSE n)
                  THEN cfg.concurrency ELSE (IF n = 0 THEN 1 ELSE n)
         IN IF m >= 1 THEN m ELSE 1)

\* two workers each run a job, with a configured concurrency of 2
C5_Witness ==
    /\ cfg.concurrency = 2
    /\ Cardinality(InFlight) = 2
    /\ \E w \in Workers : wpc[w] = "backoff"

\* ---------------------------------------------------------------- C6
\* C6: at any moment at most one attempt of a given job has a subprocess
\* that has been spawned and has not exited.
C6_AttemptsNeverOverlap ==
    \A j \in Jobs : Cardinality({a \in 1..AttemptBound : Alive(j, a)}) <= 1

\* ---------------------------------------------------------------- C7
\* C7: download returns only after its subprocess has exited: a subprocess
\* that is still alive belongs to the download call that is still pending.
C7_NoProcessAfterReturn ==
    \A j \in Jobs : \A a \in 1..AttemptBound :
        Alive(j, a) => Pending(j) # 0 /\ wattempt[Pending(j)] = a

\* ---------------------------------------------------------------- C8
\* C8: while the job callback has failed k times, each time with a retryable
\* error and k <= retries, the pool events of the job are started(1),
\* retry(1), ..., started(k), retry(k), possibly followed by started(k+1),
\* and no failed event; when attempt k+1 then succeeds they are exactly
\* started(1), retry(1), ..., retry(k), started(k+1), completed(attempts = k+1).
C8_RetryThenSuccess ==
    \A j \in Jobs :
        LET o == outcomes[j]
            n == Len(o)
        IN
        /\ (AllRetryable(o) /\ n <= cfg.retries) =>
              PoolEvents(j) \in
                  {RetryPrefix(n), RetryPrefix(n) \o <<(<<"started", n + 1>>)>>}
        /\ (n >= 1 /\ o[n] = "ok" /\ AllRetryable(SubSeq(o, 1, n - 1))) =>
              PoolEvents(j) =
                  RetryPrefix(n - 1) \o <<(<<"started", n>>), (<<"completed", n>>)>>

\* a job failed once with a retryable error and completed on attempt 2
C8_Witness ==
    \E j \in Jobs : outcomes[j] = <<"retryable", "ok">> /\ Returned(j)

\* ---------------------------------------------------------------- C9
\* C9: when attempt n fails with a non-retryable error the job terminates at
\* once, whatever retry budget is left: its last pool event is
\* failed(attempts = n), and it has n started and n - 1 retry events, at that
\* moment and ever after.
C9_FatalFailsAtOnce ==
    \A j \in Jobs :
        LET o == outcomes[j]
            n == Len(o)
            pe == PoolEvents(j)
        IN
        (n >= 1 /\ o[n] = "fatal") =>
            /\ pe # <<>>
            /\ pe[Len(pe)] = <<"failed", n>>
            /\ Count(j, "started") = n
            /\ Count(j, "retry") = n - 1
            /\ Count(j, "failed") = 1

\* with a retry left, the first attempt failed with a non-retryable error
C9_Witness ==
    \E j \in Jobs : cfg.retries >= 1 /\ outcomes[j] = <<"fatal">> /\ Returned(j)

\* --------------------------------------------------------------- C10
\* C10: a job whose every attempt fails with a retryable error makes exactly
\* retries + 1 attempts: it never settles more than retries + 1 times, it has
\* no failed event before attempt retries + 1 has failed, and then it has
\* retries + 1 started events, retries retry events and one failed event
\* with attempts = retries + 1, which is its last pool event.
C10_ExhaustsBudget ==
    \A j \in Jobs :
        LET o == outcomes[j]
            n == Len(o)
            pe == PoolEvents(j)
        IN
        AllRetryable(o) =>
            /\ n <= cfg.retries + 1
            /\ n <= cfg.retries => Count(j, "failed") = 0 /\ ~Returned(j)
            /\ n = cfg.retries + 1 =>
                  /\ Count(j, "started") = cfg.retries + 1
                  /\ Count(j, "retry") = cfg.retries
                  /\ Count(j, "failed") = 1
                  /\ pe[Len(pe)] = <<"failed", cfg.retries + 1>>
                  /\ Returned(j)

\* with one retry, both attempts of a job failed with a retryable error
C10_Witness ==
    \E j \in Jobs :
        cfg.retries = 1 /\ outcomes[j] = <<"retryable", "retryable">>
            /\ Count(j, "failed") = 1

\* --------------------------------------------------------------- C12
\* what the timer callback of the pending attempt of job j leaves behind: the
\* subprocess signalled, the attempt settled as a retryable failure, and
\* either a retry event and the worker in its backoff sleep, or the failed
\* event and the Result, both carrying the timed-out reason
TimedOutPost(j) ==
    LET w == Pending(j)
        a == wattempt[w]
    IN
    /\ child'[j][a] = "killed"
    /\ outcomes'[j] = Append(outcomes[j], "retryable")
    /\ IF a < cfg.retries + 1
       THEN /\ ev'[j] = Append(ev[j], Ev("retry", a, "Download timed out"))
            /\ wpc'[w] = "backoff"
            /\ results' = results
       ELSE /\ SubSeq(ev'[j], 1, Len(ev[j]) + 1) =
                   Append(ev[j], Ev("failed", a, "Download timed out"))
            /\ results' = Append(results,
                   [jobId |-> j, success |-> FALSE, attempts |-> a,
                    errorMessage |-> "Download timed out"])

\* the last pool event of worker w's job is the retry of a timed-out attempt
AfterTimedOutRetry(w) ==
    LET es == SelectSeq(ev[wjob[w]], IsPoolEvent)
    IN es # <<>> /\ es[Len(es)] = Ev("retry", wattempt[w], "Download timed out")

\* C12: when the timeout of the pending attempt expires, the subprocess is
\* signalled and the attempt fails with the retryable timed-out error: the
\* pool emits retry if attempts remain and failed if the attempt was the last
\* one; and the end of the backoff sleep after such a retry starts the next
\* attempt, with its started event and its subprocess.
C12_TimeoutRetriesOrFails ==
    [][/\ \A j \in Jobs : TimerFire(j) => TimedOutPost(j)
       /\ \A w \in Workers :
            (wpc[w] = "backoff" /\ AfterTimedOutRetry(w) /\ BackoffDone(w)) =>
                /\ ev'[wjob[w]] = ev[wjob[w]] \o StartEvents(wjob[w], wattempt[w] + 1)
                /\ child'[wjob[w]][wattempt[w] + 1] = "spawned"
                /\ timer'[wjob[w]]]_vars

\* a job timed out on both of its attempts: retry after the first, failed
\* after the second
C12_Witness ==
    \E j \in Jobs :
        /\ cfg.timeoutSec # 0
        /\ PoolEvents(j) = <<(<<"started", 1>>), (<<"retry", 1>>),
                             (<<"started", 2>>), (<<"failed", 2>>)>>
        /\ \A i \in Positions(j, {"retry", "failed"}) : ev[j][i].d = "Download timed out"

\* --------------------------------------------------------------- C14
\* C14: the started events with attempt 1 are emitted in the order of the
\* job list: the jobs that have such an event are those of startOrder, and
\* startOrder is increasing in the position of the job in the list.
C14_FifoStartOrder ==
    /\ \A i, k \in 1..Len(startOrder) : i < k => startOrder[i] < startOrder[k]
    /\ \A j \in Jobs :
          (\E i \in 1..Len(startOrder) : startOrder[i] = j)
              <=> (\E i \in Positions(j, {"started"}) : ev[j][i].a = 1)

\* one worker, two jobs: the second job started after the first one had
\* been retried and had reached its terminal event
C14_Witness ==
    /\ workerCount = 1
    /\ startOrder = <<1, 2>>
    /\ Count(1, "retry") = 1
    /\ Returned(1)

\* --------------------------------------------------------------- C20
ResultsOf(j) == {i \in 1..Len(results) : results[i].jobId = j}

\* C20: every job is taken from the queue exactly once and by one worker: a
\* job is either still in the queue or has been taken, never both and never
\* twice, no two workers run the same job, and when run resolves results
\* holds exactly one Result per input job.
C20_EachJobTakenOnce ==
    /\ \A i, k \in 1..Len(startOrder) : i # k => startOrder[i] # startOrder[k]
    /\ \A w, v \in Workers :
          (w # v /\ wpc[w] # "done" /\ wpc[v] # "done") => wjob[w] # wjob[v]
    /\ runPromise # "none" =>
          \A j \in Jobs :
              (\E i \in 1..Len(queue) : queue[i] = j)
                  <=> ~(\E i \in 1..Len(startOrder) : startOrder[i] = j)
    /\ \A j \in Jobs : Cardinality(ResultsOf(j)) <= 1
    /\ runPromise = "resolved" =>
          /\ Len(results) = Len(cfg.jobs)
          /\ \A j \in Jobs : Cardinality(ResultsOf(j)) = 1

\* two workers ran two jobs and run resolved; the second job of the list
\* finished first
C20_Witness ==
    /\ runPromise = "resolved"
    /\ workerCount = 2
    /\ Len(results) = 2
    /\ results[1].jobId = 2
    /\ results[2].jobId = 1

\* --------------------------------------------------------------- C15
\* a run of PoolJobs jobs on at least two workers, whose subprocesses print
\* nothing: they exit, fail to spawn or time out
QueuedJobLists ==
    {s \in SeqsUpTo(Providers, PoolJobs) :
        Len(s) = PoolJobs /\ \A i \in 1..(Len(s) - 1) : s[i] # s[i + 1]}

InitQueued ==
    /\ cfg \in [jobs : QueuedJobLists,
                concurrency : 2..MaxConcurrency,
                retries : 0..MaxRetries,
                timeoutSec : {0, 1},
                emitLogs : BOOLEAN]
    /\ PoolIdle
    /\ side = [at |-> "runtime"]

NextQuiet ==
    \/ Start
    \/ \E w \in Workers : BackoffDone(w)
    \/ \E j \in Jobs, a \in 1..AttemptBound, c \in ExitCodes : ChildClose(j, a, c)
    \/ \E j \in Jobs, a \in 1..AttemptBound : ChildError(j, a)
    \/ \E j \in Jobs : TimerFire(j)

SpecQueued == InitQueued /\ [][NextQuiet]_vars

\* the attempt worker v is running succeeds while worker w stays asleep: v
\* emits completed for its job, pushes the Result and, if a job is queued,
\* takes it and emits its started event
CompletesBeside(v, w) ==
    LET j == wjob[v] IN
    /\ ChildClose(j, wattempt[v], 0)
    /\ wpc'[w] = "backoff"
    /\ Len(results') = Len(results) + 1
    /\ results'[Len(results')].jobId = j
    /\ ev'[j][Len(ev'[j])] = Ev("completed", wattempt[v], "")
    /\ queue # <<>> =>
          /\ queue' = Tail(queue)
          /\ wjob'[v] = Head(queue)
          /\ wpc'[v] = "awaiting"
          /\ ev'[Head(queue)] = StartEvents(Head(queue), 1)
          /\ child'[Head(queue)][1] = "spawned"

\* C15: while a worker sleeps between two attempts of its job, every other
\* worker that is running an attempt can finish it and go on: its
\* subprocess's exit completes its job and starts the next queued job, and
\* its failures are handled too (spawn error, timeout), with the sleeping
\* worker still asleep.
C15_BackoffSuspendsOnlyItsWorker ==
    \A w, v \in Workers :
        (w # v /\ wpc[w] = "backoff" /\ wpc[v] = "awaiting") =>
            /\ ENABLED CompletesBeside(v, w)
            /\ timer[wjob[v]] => ENABLED (TimerFire(wjob[v]) /\ wpc'[w] = "backoff")
            /\ child[wjob[v]][wattempt[v]] = "spawned" =>
                  ENABLED (ChildError(wjob[v], wattempt[v]) /\ wpc'[w] = "backoff")

\* one worker is still asleep after the first attempt of its job while the
\* other worker has completed its own job and the job that was queued
C15_Witness ==
    \E w \in Workers :
        /\ wpc[w] = "backoff"
        /\ Count(wjob[w], "started") = 1
        /\ Cardinality({j \in Jobs : Count(j, "completed") = 1 /\ Returned(j)}) = 2

\* --------------------------------------------------------------- C11
\* new Error(message): not a VidlerError, carries no retryable flag
PlainError(message) ==
    [vidler |-> FALSE, isError |-> TRUE, retryable |-> FALSE, message |-> message]

\* a thrown value that is not an Error
ThrownValue == [vidler |-> FALSE, isError |-> FALSE, retryable |-> FALSE, message |-> ""]

\* last stderr lines of a failed subprocess
ClassifyLines ==
    StderrVocabulary \cup
        {"ERROR: read ECONNRESET",
         "ERROR: HTTP Error 503: Service Unavailable",
         "ERROR: Temporary failure in name resolution",
         "ERROR: The read operation timed out"}

\* the DownloadError of the close handler for exit code 1 and stderr lines
CloseError(lines) ==
    DownloadError(buildYtDlpErrorMessage(1, StderrSnippet(lines)),
                  isRetryableStderr(StderrSnippet(lines)))

\* what runJob can reject with
ThrownErrors ==
    {CloseError(<<l>>) : l \in ClassifyLines}
        \cup {CloseError(<<>>), TimeoutError, DownloadError("spawn ENOENT", TRUE)}
        \cup {PlainError(m) : m \in {"read ECONNRESET",
                                     "HTTP Error 503: Service Unavailable",
                                     "unexpected end of input"}}
        \cup {ThrownValue}

\* a runtime that is never started
IdleCfg ==
    [jobs |-> <<>>, concurrency |-> 1, retries |-> 0, timeoutSec |-> 0, emitLogs |-> FALSE]

\* the catch block of #runWithRetry is entered with an error, in attempt
\* `attempt` of a pool configured with `retries`
InitClassify ==
    /\ cfg = IdleCfg
    /\ PoolIdle
    /\ side \in {c \in [at : {"classify"}, error : ThrownErrors,
                        attempt : 1..AttemptBound, retries : 0..(MaxRetries + 1),
                        decision : {"none"}] :
                    c.attempt <= MaxAttempts(c.retries)}

\* the retry decision of the catch block
Classify ==
    /\ side.at = "classify"
    /\ side.decision = "none"
    /\ side' = [side EXCEPT !.decision =
                   IF isRetryableError(side.error)
                          /\ ~IsLastAttempt(side.attempt, MaxAttempts(side.retries))
                   THEN "retry" ELSE "fail"]
    /\ UNCHANGED poolVars

NextClassify == Classify

SpecClassify == InitClassify /\ [][NextClassify]_vars

\* the text contains one of the transient signals the program knows
KnownTransient(text) ==
    \E signal \in retryablePatterns \cup retryableSignals : LineIncludes(text, signal)

\* C11: an error that is flagged retryable by its origin, or whose message
\* contains a known transient signal, is retried whenever attempts remain.
C11_FlaggedOrTransientIsRetried ==
    (side.at = "classify" /\ side.decision # "none") =>
        LET e == side.error IN
        ((e.retryable \/ (e.isError /\ KnownTransient(e.message)))
             /\ side.attempt < side.retries + 1)
            => side.decision = "retry"

\* --------------------------------------------------------------- C13
MaxStrategies == 3    \* longest list of adapters registered in a StrategyRegistry

ProviderKinds == {"youtube", "tiktok", "facebook", "generic"}

\* new YtDlpStrategy(paths): instance `obj`
YtDlpStrategy(obj) == [name |-> "yt-dlp", base |-> obj, bound |-> FALSE, providers |-> {}]

bindStrategyToProviders(base, providers, name) ==
    [name |-> name, base |-> base.base, bound |-> TRUE, providers |-> providers]

\* strategy.canHandle(job): a bound adapter asks its provider set,
\* YtDlpStrategy answers true
canHandle(strategy, job) ==
    IF strategy.bound THEN job.detectedProvider \in strategy.providers ELSE TRUE

createYtDlpStrategySet ==
    LET base == YtDlpStrategy(1) IN
    [strategies |-> <<bindStrategyToProviders(base, {"youtube"}, "yt-dlp:youtube"),
                      bindStrategyToProviders(base, {"tiktok"}, "yt-dlp:tiktok"),
                      bindStrategyToProviders(base, {"facebook"}, "yt-dlp:facebook")>>,
     fallback |-> base]

\* adapters a registry may be built from: those of the yt-dlp set, a binding
\* to two providers, a binding to none, and a second YtDlpStrategy instance
Adapters ==
    {createYtDlpStrategySet.strategies[i] : i \in 1..3}
        \cup {bindStrategyToProviders(YtDlpStrategy(1), {"youtube", "tiktok"},
                                      "yt-dlp:youtube,tiktok"),
              bindStrategyToProviders(YtDlpStrategy(1), {}, "yt-dlp:"),
              YtDlpStrategy(2)}

RECURSIVE ResolveBackwards(_, _, _, _)
ResolveBackwards(strategies, fallback, job, i) ==
    IF i < 1 THEN fallback
    ELSE IF canHandle(strategies[i], job) THEN strategies[i]
    ELSE ResolveBackwards(strategies, fallback, job, i - 1)

resolveLastMatch(strategies, fallback, job) ==
    ResolveBackwards(strategies, fallback, job, Len(strategies))

\* for (const strategy of this.#strategies), from index i on
RECURSIVE ResolveFrom(_, _, _, _)
ResolveFrom(strategies, fallback, job, i) ==
    IF i > Len(strategies) THEN fallback
    ELSE IF canHandle(strategies[i], job) THEN strategies[i]
    ELSE ResolveFrom(strategies, fallback, job, i + 1)

\* StrategyRegistry.resolve(job)
resolve(strategies, fallback, job) == ResolveFrom(strategies, fallback, job, 1)

\* resolve has not been called yet
NoStrategy == [name |-> "", base |-> 0, bound |-> FALSE, providers |-> {}]

\* a registry with a designated fallback that is not itself registered, and
\* a job to resolve
InitRegistry ==
    /\ cfg = IdleCfg
    /\ PoolIdle
    /\ side \in [at : {"registry"},
                 strategies : SeqsUpTo(Adapters, MaxStrategies),
                 fallback : {YtDlpStrategy(1)},
                 job : [detectedProvider : ProviderKinds],
                 resolved : {NoStrategy}]

\* registry.resolve(job) in runJob
Resolve ==
    /\ side.at = "registry"
    /\ side.resolved = NoStrategy
    /\ side' = [side EXCEPT !.resolved = resolve(side.strategies, side.fallback, side.job)]
    /\ UNCHANGED poolVars

NextRegistry == Resolve

SpecRegistry == InitRegistry /\ [][NextRegistry]_vars

\* positions of the registered adapters that can handle the job
Handlers == {i \in 1..Len(side.strategies) : canHandle(side.strategies[i], side.job)}

MaxBase == 6              \* largest configured baseBackoffMs
MaxBackoffAttempt == 3    \* largest attempt number passed to #computeBackoff
JitterGrid == 8           \* Math.random() returns k / JitterGrid, k < JitterGrid

\* value ?? fallback, an absent value being the empty sequence
OrElse(value, fallback) == IF value = <<>> THEN fallback ELSE value[1]

\* the constructor's #options.baseBackoffMs: options.baseBackoffMs ?? 500
OptionsBaseBackoffMs(baseBackoffMs) == <<OrElse(baseBackoffMs, 500)>>

\* Math.round(num / den) for num >= 0, den > 0
Round(num, den) == (2 * num + den) \div (2 * den)

computeBackoffGrowsLate(baseBackoffMs, attempt, k) ==
    LET base == OrElse(baseBackoffMs, 500)
        factor == 2 ^ Max(0, attempt - 2)
    IN Round(base * factor * (8 * JitterGrid + 4 * k), 10 * JitterGrid)

computeBackoffWideJitter(baseBackoffMs, attempt, k) ==
    LET base == OrElse(baseBackoffMs, 500)
        factor == 2 ^ Max(0, attempt - 1)
    IN Round(base * factor * (8 * JitterGrid + 8 * k), 10 * JitterGrid)

\* #computeBackoff(attempt) with Math.random() = k / JitterGrid:
\* jitter = 0.8 + 0.4 * k / JitterGrid = (8 * JitterGrid + 4 * k) / (10 * JitterGrid)
computeBackoff(baseBackoffMs, attempt, k) ==
    LET base == OrElse(baseBackoffMs, 500)
        factor == 2 ^ Max(0, attempt - 1)
    IN Round(base * factor * (8 * JitterGrid + 4 * k), 10 * JitterGrid)

\* a pool constructed with baseBackoffMs absent or 0..MaxBase, and a value of
\* Math.random() that stays the same over the attempts
InitBackoff ==
    /\ cfg = IdleCfg
    /\ PoolIdle
    /\ side \in [at : {"backoff"},
                 baseBackoffMs : {<<>>} \cup {<<b>> : b \in 0..MaxBase},
                 k : 0..(JitterGrid - 1),
                 delays : {<<>>}]

\* the nextDelayMs of the retry after the next failed attempt
ComputeBackoff ==
    /\ side.at = "backoff"
    /\ Len(side.delays) < MaxBackoffAttempt
    /\ side' = [side EXCEPT !.delays =
                   Append(@, computeBackoff(OptionsBaseBackoffMs(side.baseBackoffMs),
                                            Len(@) + 1, side.k))]
    /\ UNCHANGED poolVars

NextBackoff == ComputeBackoff

SpecBackoff == InitBackoff /\ [][NextBackoff]_vars

\* base * 2^(a-1), with the base the pool uses
Nominal(a) == OrElse(side.baseBackoffMs, 500) * 2 ^ (a - 1)

\* C16 as stated: every delay lies within
\* [0.8 * base * 2^(a-1), 1.2 * base * 2^(a-1)], for every base.
C16_DelayWithinJitterInterval ==
    side.at = "backoff" =>
        \A a \in 1..Len(side.delays) :
            /\ 8 * Nominal(a) <= 10 * side.delays[a]
            /\ 10 * side.delays[a] <= 12 * Nominal(a)

\* C16, amended: every delay is an integer within half a millisecond of
\* [0.8 * base * 2^(a-1), 1.2 * base * 2^(a-1)], and within the interval
\* itself whenever 0.8 * base is an integer, as for the default base of 500.
C16_DelayWithinRoundedInterval ==
    side.at = "backoff" =>
        \A a \in 1..Len(side.delays) :
            /\ 8 * Nominal(a) - 5 <= 10 * side.delays[a]
            /\ 10 * side.delays[a] <= 12 * Nominal(a) + 5
            /\ (8 * OrElse(side.baseBackoffMs, 500)) % 10 = 0 =>
                  /\ 8 * Nominal(a) <= 10 * side.delays[a]
                  /\ 10 * side.delays[a] <= 12 * Nominal(a)

\* three delays of a pool with base 3 and the smallest jitter; the first,
\* round(2.4) = 2, lies below 0.8 * 3
C16_Witness ==
    /\ side.at = "backoff"
    /\ side.baseBackoffMs = <<3>>
    /\ Len(side.delays) = 3
    /\ 10 * side.delays[1] < 8 * Nominal(1)

\* C17 as stated: for a fixed jitter the delay is strictly increasing in the
\* attempt number, for every configured base.
C17_DelayStrictlyIncreasing ==
    side.at = "backoff" =>
        \A a \in 1..(Len(side.delays) - 1) : side.delays[a + 1] > side.delays[a]

\* C17, amended: for a fixed jitter the delay is strictly increasing in the
\* attempt number for every base of at least 1 ms (the default 500 included);
\* with a base of 0 every delay is 0.
C17_DelayStrictlyIncreasingFromOne ==
    side.at = "backoff" =>
        \A a \in 1..(Len(side.delays) - 1) :
            IF OrElse(side.baseBackoffMs, 500) >= 1
            THEN side.delays[a + 1] > side.delays[a]
            ELSE side.delays[a + 1] = 0 /\ side.delays[a] = 0

\* three delays of a pool with base 1 and the smallest jitter: 1, 2, 3
C17_Witness ==
    /\ side.at = "backoff"
    /\ side.baseBackoffMs = <<1>>
    /\ side.k = 0
    /\ side.delays = <<1, 2, 3>>

\* --------------------------------------------------------- C18, C19
\* error.exitCode of the error classes, 1 for any other error
\* variant: every error exits with 1
toExitCodeFlat(kind) == 1

toExitCode(kind) ==
    CASE kind = "InvalidInputError" -> 2
      [] kind = "DependencyError" -> 3
      [] OTHER -> 1

\* what the command line holds: more than one argument; no argument, with
\* stdin not a TTY or --json ("headless") or on a terminal ("prompt"); one
\* empty argument; one argument that is no http(s) URL; one argument that is
\* a URL of the given provider
Inputs == {"two", "headless", "prompt", "empty", "invalid"} \cup Providers

\* state of a file: absent, completely written, or cut short by a failed write
FileStates == {"absent", "complete", "partial"}

Platforms == {"linux", "win32", "freebsd"}
Archs == {"x64", "mips"}

\* #isExecutable(filePath): access and stat(...).isFile() succeed
isExecutable(file) == file # "absent"

\* #ytDlpUrl(): "" stands for undefined
ytDlpUrl(platform) ==
    CASE platform = "linux" ->
             "https://github.com/yt-dlp/yt-dlp/releases/latest/download/yt-dlp"
      [] platform = "darwin" ->
             "https://github.com/yt-dlp/yt-dlp/releases/latest/download/yt-dlp_macos"
      [] platform = "win32" ->
             "https://github.com/yt-dlp/yt-dlp/releases/latest/download/yt-dlp.exe"
      [] OTHER -> ""

\* #ffmpegAssetCandidates(), for the platforms and architectures of the model
ffmpegAssetCandidates(platform, arch) ==
    CASE platform = "linux" /\ arch = "x64" -> <<"ffmpeg-linux-x64">>
      [] platform = "win32" /\ arch = "x64" -> <<"ffmpeg-win32-x64.exe", "ffmpeg-win32-x64">>
      [] OTHER -> <<>>

\* what the network and the file system do during one resolution: the
\* release-metadata request, the asset list, the download, chmod
NetOutcomes ==
    [metadata : {"rejects", "httpError", "ok"},
     asset : {"exact", "relaxed", "none"},
     download : {"rejects", "httpError", "streamError", "ok"},
     chmod : {"ok", "fails"}]

\* downloadToFile(url, destination): the error thrown ("none" if none) and
\* the state of the destination afterwards. The body is piped straight into
\* the destination, so a failed stream leaves a partial file.
downloadToFile(outcome, file) ==
    CASE outcome = "rejects" -> [threw |-> "Error", file |-> file]
      [] outcome = "httpError" -> [threw |-> "DependencyError", file |-> file]
      [] outcome = "streamError" -> [threw |-> "Error", file |-> "partial"]
      [] OTHER -> [threw |-> "none", file |-> "complete"]

\* #resolveFfmpegDownloadUrl(): the error thrown, and whether a URL came back
resolveFfmpegDownloadUrl(platform, arch, net) ==
    IF ffmpegAssetCandidates(platform, arch) = <<>> THEN [threw |-> "none", url |-> FALSE]
    ELSE IF net.metadata = "rejects" THEN [threw |-> "Error", url |-> FALSE]
    ELSE IF net.metadata = "httpError" THEN [threw |-> "DependencyError", url |-> FALSE]
    ELSE [threw |-> "none", url |-> net.asset # "none"]

ensureYtDlpSkipsUrlCheck(onPath, cached, platform, net) ==
    IF onPath THEN [threw |-> "none", path |-> "path", file |-> cached, fetched |-> <<>>]
    ELSE [threw |-> "none", path |-> "cache", file |-> cached, fetched |-> <<>>]

\* variant: the cache is not consulted, the executable is fetched again
ensureYtDlpIgnoresCache(onPath, cached, platform, net) ==
    IF onPath THEN [threw |-> "none", path |-> "path", file |-> cached, fetched |-> <<>>]
    ELSE LET dl == downloadToFile(net.download, cached) IN
         IF dl.threw # "none"
         THEN [threw |-> dl.threw, path |-> "unset", file |-> dl.file,
               fetched |-> <<"download">>]
         ELSE [threw |-> "none", path |-> "cache", file |-> dl.file,
               fetched |-> <<"download">>]

\* #ensureYtDlp(): the error thrown, the path returned ("path": found on
\* PATH, "cache": cachedPath), the state of the cache file afterwards and
\* the network requests made
ensureYtDlp(onPath, cached, platform, net) ==
    IF onPath THEN [threw |-> "none", path |-> "path", file |-> cached, fetched |-> <<>>]
    ELSE IF isExecutable(cached)
    THEN [threw |-> "none", path |-> "cache", file |-> cached, fetched |-> <<>>]
    ELSE IF ytDlpUrl(platform) = ""
    THEN [threw |-> "DependencyError", path |-> "unset", file |-> cached, fetched |-> <<>>]
    ELSE LET dl == downloadToFile(net.download, cached) IN
         IF dl.threw # "none"
         THEN [threw |-> dl.threw, path |-> "unset", file |-> dl.file,
               fetched |-> <<"download">>]
         ELSE IF net.chmod = "fails"
         THEN [threw |-> "Error", path |-> "unset", file |-> dl.file,
               fetched |-> <<"download">>]
         ELSE IF ~isExecutable(dl.file)
         THEN [threw |-> "DependencyError", path |-> "unset", file |-> dl.file,
               fetched |-> <<"download">>]
         ELSE [threw |-> "none", path |-> "cache", file |-> dl.file,
               fetched |-> <<"download">>]

ensureFfmpegUncaught(onPath, cached, platform, arch, net) ==
    IF onPath THEN [threw |-> "none", path |-> "path", file |-> cached, fetched |-> <<>>]
    ELSE IF isExecutable(cached)
    THEN [threw |-> "none", path |-> "cache", file |-> cached, fetched |-> <<>>]
    ELSE LET r == resolveFfmpegDownloadUrl(platform, arch, net) IN
         IF r.threw # "none" \/ ~r.url
         THEN [threw |-> "none", path |-> "unset", file |-> cached, fetched |-> <<>>]
         ELSE LET dl == downloadToFile(net.download, cached) IN
              IF dl.threw # "none"
              THEN [threw |-> dl.threw, path |-> "unset", file |-> dl.file,
                    fetched |-> <<"download">>]
              ELSE [threw |-> "none", path |-> "cache", file |-> dl.file,
                    fetched |-> <<"download">>]

\* #ensureFfmpeg(): as ensureYtDlp, with "unset" for undefined; every error
\* of the URL resolution and of the bootstrap is caught
ensureFfmpeg(onPath, cached, platform, arch, net) ==
    LET metadata == IF ffmpegAssetCandidates(platform, arch) = <<>> THEN <<>>
                    ELSE <<"metadata">>
    IN
    IF onPath THEN [threw |-> "none", path |-> "path", file |-> cached, fetched |-> <<>>]
    ELSE IF isExecutable(cached)
    THEN [threw |-> "none", path |-> "cache", file |-> cached, fetched |-> <<>>]
    ELSE LET r == resolveFfmpegDownloadUrl(platform, arch, net) IN
         IF r.threw # "none"
         THEN [threw |-> "none", path |-> "unset", file |-> cached, fetched |-> metadata]
         ELSE IF ~r.url
         THEN [threw |-> "none", path |-> "unset", file |-> cached, fetched |-> metadata]
         ELSE LET dl == downloadToFile(net.download, cached)
                  fetched == metadata \o <<"download">>
              IN
              IF dl.threw # "none"
              THEN [threw |-> "none", path |-> "unset", file |-> dl.file,
                    fetched |-> fetched]
              ELSE IF platform # "win32" /\ net.chmod = "fails"
              THEN [threw |-> "none", path |-> "unset", file |-> dl.file,
                    fetched |-> fetched]
              ELSE IF ~isExecutable(dl.file)
              THEN [threw |-> "none", path |-> "unset", file |-> dl.file,
                    fetched |-> fetched]
              ELSE [threw |-> "none", path |-> "cache", file |-> dl.file,
                    fetched |-> fetched]

\* the process at the start of main: command line, platform, PATH and cache
InitBoot ==
    /\ cfg = IdleCfg
    /\ PoolIdle
    /\ side \in [at : {"boot"}, pc : {"main"},
                 input : Inputs, platform : Platforms, arch : Archs,
                 retries : 0..MaxRetries, timeoutSec : {0, 1}, showLog : BOOLEAN,
                 ytDlpOnPath : BOOLEAN, ytDlpCache : FileStates,
                 ffmpegOnPath : BOOLEAN, ffmpegCache : FileStates,
                 job : {"none"}, ytDlpPath : {"unset"}, ffmpegPath : {"unset"},
                 error : {"none"}, thrownBy : {"none"}, exitCode : {0}]

\* main().catch: the error is printed and becomes the exit code
Abort(kind, thrownBy) ==
    side' = [side EXCEPT !.pc = "failed", !.error = kind, !.thrownBy = thrownBy,
                         !.exitCode = toExitCode(kind)]

\* main up to the end of resolveRequestFromInput: the argument count, the
\* URL argument or the interactive prompt, which yields a valid request
ResolveRequest ==
    /\ side.at = "boot" /\ side.pc = "main"
    /\ IF side.input \in {"two", "headless", "empty", "invalid"}
       THEN Abort("InvalidInputError", "resolveRequestFromInput")
       ELSE \E provider \in Providers :
                /\ side.input = "prompt" \/ side.input = provider
                /\ side' = [side EXCEPT !.pc = "request", !.input = provider]
    /\ UNCHANGED poolVars

\* main after resolveRequestFromInput: detectProvider, the job record, and
\* ensureBinaries up to its first await
CreateJob ==
    /\ side.at = "boot" /\ side.pc = "request"
    /\ side' = [side EXCEPT !.pc = "ensureYtDlp", !.job = side.input]
    /\ UNCHANGED poolVars

\* ensureBinaries: #ensureYtDlp
EnsureYtDlp(net) ==
    /\ side.at = "boot" /\ side.pc = "ensureYtDlp"
    /\ LET r == ensureYtDlp(side.ytDlpOnPath, side.ytDlpCache, side.platform, net) IN
       IF r.threw # "none"
       THEN side' = [side EXCEPT !.pc = "failed", !.error = r.threw,
                                 !.thrownBy = "ensureYtDlp",
                                 !.exitCode = toExitCode(r.threw),
                                 !.ytDlpCache = r.file]
       ELSE side' = [side EXCEPT !.pc = "ensureFfmpeg", !.ytDlpPath = r.path,
                                 !.ytDlpCache = r.file]
    /\ UNCHANGED poolVars

\* ensureBinaries: #ensureFfmpeg and the return
EnsureFfmpeg(net) ==
    /\ side.at = "boot" /\ side.pc = "ensureFfmpeg"
    /\ LET r == ensureFfmpeg(side.ffmpegOnPath, side.ffmpegCache, side.platform,
                             side.arch, net) IN
       IF r.threw # "none"
       THEN side' = [side EXCEPT !.pc = "failed", !.error = r.threw,
                                 !.thrownBy = "ensureFfmpeg",
                                 !.exitCode = toExitCode(r.threw),
                                 !.ffmpegCache = r.file]
       ELSE side' = [side EXCEPT !.pc = "binaries", !.ffmpegPath = r.path,
                                 !.ffmpegCache = r.file]
    /\ UNCHANGED poolVars

\* createYtDlpStrategySet(binaryPaths) and createRuntime with the one job
CreateRuntime ==
    /\ side.at = "boot" /\ side.pc = "binaries"
    /\ cfg' = [jobs |-> <<side.job>>, concurrency |-> 1, retries |-> side.retries,
               timeoutSec |-> side.timeoutSec, emitLogs |-> side.showLog]
    /\ side' = [at |-> "runtime", ytDlpPath |-> side.ytDlpPath,
                ffmpegPath |-> side.ffmpegPath]
    /\ UNCHANGED <<runPromise, queue, results, workerCount, wpc, wjob, wattempt,
                   child, nlines, stderrLines, timer, ev, outcomes, startOrder>>

NextBoot ==
    \/ ResolveRequest
    \/ CreateJob
    \/ \E net \in NetOutcomes : EnsureYtDlp(net)
    \/ \E net \in NetOutcomes : EnsureFfmpeg(net)
    \/ CreateRuntime
    \/ Next

SpecBoot == InitBoot /\ [][NextBoot]_vars

\* the launch cannot succeed: request validation fails, or yt-dlp is not on
\* PATH, not in the cache, and has no download URL on this platform
FatalLaunch ==
    /\ side.at = "boot"
    /\ \/ side.input \in {"two", "headless", "empty", "invalid"}
       \/ /\ ~side.ytDlpOnPath
          /\ side.ytDlpCache = "absent"
          /\ ytDlpUrl(side.platform) = ""

C19_FfmpegNeverFailsResolution ==
    side.at = "boot" =>
        /\ side.thrownBy # "ensureFfmpeg"
        /\ side.pc = "ensureFfmpeg" =>
              /\ side.ytDlpPath \in {"path", "cache"}
              /\ \A net \in NetOutcomes :
                    ENABLED (EnsureFfmpeg(net) /\ side'.pc = "binaries")
        /\ side.pc = "binaries" =>
              /\ side.error = "none"
              /\ side.ytDlpPath \in {"path", "cache"}
              /\ side.ffmpegPath \in {"path", "cache", "unset"}
              /\ side.ffmpegPath = "path" => side.ffmpegOnPath
              /\ side.ffmpegPath = "cache" => isExecutable(side.ffmpegCache)

\* ensureBinaries returned with the ffmpeg path unset after a download of
\* ffmpeg that broke off part-way
C19_Witness ==
    /\ side.at = "boot"
    /\ side.pc = "binaries"
    /\ side.ffmpegPath = "unset"
    /\ ~side.ffmpegOnPath
    /\ side.ffmpegCache = "partial"

\* --------------------------------------------------------------- C21
\* what a job callback handed to run may reject with: flagged errors, plain
\* Errors with and without a transient pattern in the message, a non-Error
CallbackErrors ==
    {TimeoutError, CloseError(<<>>),
     PlainError("read ECONNRESET"), PlainError("unexpected end of input"),
     ThrownValue}

\* a run of the pool with a job callback that is not bound to a subprocess
InitCallback ==
    /\ cfg \in [jobs : JobLists,
                concurrency : 0..MaxConcurrency,
                retries : 0..MaxRetries,
                timeoutSec : {0},
                emitLogs : {FALSE}]
    /\ PoolIdle
    /\ side = [at |-> "runtime"]

\* await runJob(job, attempt) of the worker running job j rejects with error
CallbackRejects(j, error) ==
    /\ Pending(j) # 0
    /\ Alive(j, wattempt[Pending(j)])
    /\ UNCHANGED <<cfg, workerCount, nlines>>
    /\ Settle(Pending(j), FALSE, error,
              [child EXCEPT ![j][wattempt[Pending(j)]] = "exited"])
    /\ Emit

NextCallback ==
    \/ Start
    \/ \E w \in Workers : BackoffDone(w)
    \/ \E j \in Jobs, a \in 1..AttemptBound, c \in ExitCodes : ChildClose(j, a, c)
    \/ \E j \in Jobs, error \in CallbackErrors : CallbackRejects(j, error)

SpecCallback == InitCallback /\ [][NextCallback]_vars

\* the failure of job j's pending attempt with error e was retried inside
\* the pool, or reported: a failed event and a Result with success = false;
\* a retryable e is reported only from the last allowed attempt
ContainedFailure(j, e) ==
    LET w == Pending(j)
        a == wattempt[w]
    IN
    \/ /\ a < cfg.retries + 1
       /\ ev'[j] = Append(ev[j], Ev("retry", a, Reason(e)))
       /\ wpc'[w] = "backoff"
       /\ results' = results
    \/ /\ SubSeq(ev'[j], 1, Len(ev[j]) + 1) = Append(ev[j], Ev("failed", a, Reason(e)))
       /\ results' = Append(results, [jobId |-> j, success |-> FALSE, attempts |-> a,
                                      errorMessage |-> Reason(e)])
       /\ isRetryableError(e) => a >= cfg.retries + 1

\* C21: run never rejects because of a job failure: whatever the job
\* callback rejects with, the failure is either retried inside the pool or
\* reported as a failed event and a Result with success = false, and a
\* retryable failure is reported only when it occurred on the last allowed
\* attempt.
C21_FailuresStayInsidePool ==
    [][/\ runPromise' # "rejected"
       /\ \A j \in Jobs, e \in CallbackErrors :
              CallbackRejects(j, e) => ContainedFailure(j, e)]_vars

\* a run has resolved in which a job was retried after a plain Error with a
\* transient message and then failed with a thrown non-Error value
C21_Witness ==
    /\ runPromise = "resolved"
    /\ \E j \in Jobs :
          /\ outcomes[j] = <<"fatal", "fatal">>
          /\ \E i \in Positions(j, {"retry"}) : ev[j][i].d = "read ECONNRESET"
          /\ \E i \in Positions(j, {"failed"}) : ev[j][i].d = "Unknown download failure"
          /\ \E i \in ResultsOf(j) : ~results[i].success

\* --------------------------------------------------------------- C27
\* what a listener registered for jobCompleted throws when it is called
ListenerErrors == {PlainError("read ECONNRESET"), PlainError("unexpected end of input")}

\* a run of one job with a jobCompleted listener that throws
InitListener ==
    /\ cfg \in [jobs : {l \in JobLists : Len(l) = 1},
                concurrency : 1..MaxConcurrency,
                retries : 0..MaxRetries,
                timeoutSec : {0, 1},
                emitLogs : BOOLEAN]
    /\ PoolIdle
    /\ \E error \in ListenerErrors :
          side = [at |-> "runtime", completedListener |-> error]

SpecListener == InitListener /\ [][Next]_vars

\* C27: an exception raised by a listener while the pool delivers a job's
\* completed event does not change the job's outcome: after the completed
\* event of a job no retry, failed or started event is emitted for it, and
\* the job's Result reports success.
C27_CompletedIsFinal ==
    \A j \in Jobs :
        /\ \A i \in Positions(j, {"completed"}) :
              \A n \in (i + 1)..Len(ev[j]) : ev[j][n].k \notin {"retry", "failed", "started"}
        /\ Positions(j, {"completed"}) # {} =>
              \A i \in ResultsOf(j) : results[i].success

\* --------------------------------------------------------------- C26
\* the error stream of job j's pending attempt carries no transient signal
NoTransientSignal(j) ==
    \A i \in 1..Len(stderrLines[j]) :
        \A s \in retryableSignals : ~LineIncludes(stderrLines[j][i], s)

\* the failure of job j's pending attempt is reported at once: a failed
\* event, a Result with success = false, the worker does not sleep
FailsAtOnce(j) ==
    LET w == Pending(j)
        a == wattempt[w]
    IN
    /\ Len(ev'[j]) > Len(ev[j])
    /\ ev'[j][Len(ev[j]) + 1].k = "failed"
    /\ ev'[j][Len(ev[j]) + 1].a = a
    /\ \A i \in (Len(ev[j]) + 1)..Len(ev'[j]) : ev'[j][i].k # "retry"
    /\ wpc'[w] # "backoff"
    /\ outcomes'[j] = Append(outcomes[j], "fatal")
    /\ Len(results') = Len(results) + 1
    /\ results'[Len(results')].jobId = j
    /\ ~results'[Len(results')].success

\* C26: a subprocess attempt that ends with a non-zero exit code and whose
\* error stream carries no transient signal fails with a non-retryable
\* error: it is reported as failed and never followed by a retry event,
\* whatever retry budget remains.
C26_PlainExitIsNotRetried ==
    [][\A j \in Jobs, a \in 1..AttemptBound, code \in ExitCodes \ {0} :
          (/\ ChildClose(j, a, code)
           /\ Pending(j) # 0
           /\ wattempt[Pending(j)] = a
           /\ NoTransientSignal(j)) => FailsAtOnce(j)]_vars

\* with a retry left, the first attempt of a job exited with code 1 after
\* an error line without a transient signal, and the job failed unretried
C26_Witness ==
    /\ cfg.retries = MaxRetries
    /\ MaxRetries > 0
    /\ \E j \in Jobs :
          /\ outcomes[j] = <<"fatal">>
          /\ Positions(j, {"retry"}) = {}
          /\ \E i \in Positions(j, {"failed"}) :
                /\ ev[j][i].a = 1
                /\ ev[j][i].d = "yt-dlp failed with exit code 1: ERROR: permission denied"

\* ------------------------------------------------------ progress parser
\* numbers of a snapshot are kept exact, as fractions with den > 0
Rat(n, d) == [num |-> n, den |-> d]

RatLeq(x, y) == x.num * y.den <= y.num * x.den

RatEq(x, y) == x.num * y.den = y.num * x.den

\* tokens of the byte-count fields of a structured line
NumberTokens == {"", "NA", "None", "abc", "0", "50", " 100", "100", "150"}

\* tokens of the percent field (%(progress._percent_str)s)
PercentTokens == {"", "NA", "  0.0%", " 50.0%", "150.0%"}

StatusTokens == {"downloading", "finished"}

\* String.prototype.trim on the tokens of the model
trim(text) == IF text = " 100" THEN "100" ELSE text

\* String.prototype.toLowerCase on the tokens of the model
toLowerCase(text) ==
    IF text = "NA" THEN "na" ELSE IF text = "None" THEN "none" ELSE text

\* Number(text) when it is finite, for the tokens of the model; "abc" is NaN
NumberTable == {<<"0", 0>>, <<"50", 50>>, <<"100", 100>>, <<"150", 150>>}

FiniteNumber(text) ==
    IF \E p \in NumberTable : p[1] = text
    THEN <<Rat((CHOOSE p \in NumberTable : p[1] = text)[2], 1)>>
    ELSE <<>>

\* value.match(/(\d+(?:\.\d+)?)/): the first run of digits of a token
FirstNumberTable ==
    {<<"  0.0%", 0>>, <<" 50.0%", 50>>, <<"150.0%", 150>>,
     <<"0", 0>>, <<"50", 50>>, <<" 100", 100>>, <<"100", 100>>, <<"150", 150>>}

\* variant: an unknown field counts as zero
parseNullableNumberZeroForUnknown(value) ==
    IF value = "" THEN <<Rat(0, 1)>>
    ELSE IF trim(value) = "" \/ toLowerCase(trim(value)) \in {"none", "na"}
    THEN <<Rat(0, 1)>>
    ELSE FiniteNumber(trim(value))

parseNullableNumber(value) ==
    IF value = "" THEN <<>>
    ELSE IF trim(value) = "" \/ toLowerCase(trim(value)) \in {"none", "na"} THEN <<>>
    ELSE FiniteNumber(trim(value))

parsePercent(value) ==
    IF value = "" THEN <<>>
    ELSE IF \E p \in FirstNumberTable : p[1] = value
    THEN <<Rat((CHOOSE p \in FirstNumberTable : p[1] = value)[2], 1)>>
    ELSE <<>>

\* multipliers of the units; TiB and TB are left out (wider than the
\* integers of the checker)
SIZE_UNITS ==
    [B |-> 1, KiB |-> 1024, MiB |-> 1024 * 1024, GiB |-> 1024 * 1024 * 1024,
     KB |-> 1000, MB |-> 1000 * 1000, GB |-> 1000 * 1000 * 1000]

\* normalizeUnit: the regular expressions match units in any letter case
normalizeUnit(unit) ==
    IF unit = "kib" THEN "KiB" ELSE IF unit = "mb" THEN "MB" ELSE unit

\* parseSize / parseSpeed of a matched <number, unit>
parseSize(match) == <<Rat(match.number * SIZE_UNITS[normalizeUnit(match.unit)], 1)>>

parseSpeed(match) == <<Rat(match.number * SIZE_UNITS[normalizeUnit(match.unit)], 1)>>

\* parseEta of a matched mm:ss or hh:mm:ss
parseEta(parts) ==
    IF Len(parts) = 2 THEN <<Rat(parts[1] * 60 + parts[2], 1)>>
    ELSE IF Len(parts) = 3 THEN <<Rat(parts[1] * 3600 + parts[2] * 60 + parts[3], 1)>>
    ELSE <<>>

\* the seven fields of the progress template, as raw.split("|") yields them
FullFields ==
    {<<status, downloaded, total, estimate, "NA", "50", percent>> :
        status \in StatusTokens, downloaded \in NumberTokens, total \in NumberTokens,
        estimate \in {"NA", "100"}, percent \in PercentTokens}

\* field lists: the marker alone, a field short, the template, a field more
FieldLists ==
    {<<"">>} \cup {SubSeq(f, 1, 6) : f \in FullFields} \cup FullFields
        \cup {f \o <<"x">> : f \in FullFields}

\* what the patterns of the fallback grammar find in a line: the tag
\* "[download]", the first (\d+(?:\.\d+)?)% figure, the "of <size>", the
\* "at <speed>/s" and the "ETA <time>" parts; an absent match is <<>>
Texts ==
    {[tag |-> FALSE, figure |-> <<>>, of |-> <<>>, at |-> <<>>, eta |-> <<>>],
     [tag |-> FALSE, figure |-> <<50>>, of |-> <<>>, at |-> <<>>, eta |-> <<>>],
     [tag |-> TRUE, figure |-> <<>>, of |-> <<>>, at |-> <<>>, eta |-> <<>>],
     [tag |-> TRUE, figure |-> <<50>>, of |-> <<>>, at |-> <<>>, eta |-> <<>>],
     [tag |-> TRUE, figure |-> <<50>>, of |-> <<[number |-> 2, unit |-> "kib"]>>,
      at |-> <<[number |-> 1, unit |-> "MiB"]>>, eta |-> <<<<0, 10>>>>],
     [tag |-> TRUE, figure |-> <<100>>, of |-> <<[number |-> 3, unit |-> "mb"]>>,
      at |-> <<>>, eta |-> <<<<1, 0, 10>>>>],
     [tag |-> TRUE, figure |-> <<150>>, of |-> <<[number |-> 2, unit |-> "KiB"]>>,
      at |-> <<[number |-> 1, unit |-> "KB"]>>, eta |-> <<>>]}

\* a field holds a percent figure
HasPercentFigure(fields) ==
    \E i \in 1..Len(fields) : fields[i] \in {"  0.0%", " 50.0%", "150.0%"}

\* the lines fed to the parser: with or without the marker
\* "[vidler-progress]" (fields are what follows it), and the text in front
\* of it; a percent figure in a field is a percent figure of the line
Lines ==
    {l \in [marker : BOOLEAN, fields : FieldLists, text : Texts] :
        /\ ~l.marker => l.fields = <<"">>
        /\ (l.marker /\ HasPercentFigure(l.fields)) => l.text.figure # <<>>}

\* "no snapshot" (undefined)
Nothing == [kind |-> "none"]

DownloadProgress(percent, totalBytes, speedBps, etaSec, downloadedBytes) ==
    [kind |-> "snapshot", status |-> "running", percent |-> percent,
     totalBytes |-> totalBytes, speedBps |-> speedBps, etaSec |-> etaSec,
     downloadedBytes |-> downloadedBytes]

\* fields[i], undefined (the empty token for the parsers) past the end
FieldAt(fields, i) == IF i <= Len(fields) THEN fields[i] ELSE ""

\* variant: the finished default is applied before the explicit percent
StructuredSnapshotFinishedFirst(fields) ==
    LET statusRaw == toLowerCase(trim(FieldAt(fields, 1)))
        downloadedBytes == parseNullableNumber(FieldAt(fields, 2))
        totalBytes == IF parseNullableNumber(FieldAt(fields, 3)) # <<>>
                      THEN parseNullableNumber(FieldAt(fields, 3))
                      ELSE parseNullableNumber(FieldAt(fields, 4))
        explicit == parsePercent(FieldAt(fields, 7))
    IN DownloadProgress(IF statusRaw = "finished" THEN <<Rat(100, 1)>> ELSE explicit,
                        totalBytes, parseNullableNumber(FieldAt(fields, 5)),
                        parseNullableNumber(FieldAt(fields, 6)), downloadedBytes)

\* the snapshot of a structured line, given its fields
StructuredSnapshot(fields) ==
    LET statusRaw == toLowerCase(trim(FieldAt(fields, 1)))
        downloadedBytes == parseNullableNumber(FieldAt(fields, 2))
        totalBytes == IF parseNullableNumber(FieldAt(fields, 3)) # <<>>
                      THEN parseNullableNumber(FieldAt(fields, 3))
                      ELSE parseNullableNumber(FieldAt(fields, 4))
        speedBps == parseNullableNumber(FieldAt(fields, 5))
        etaSec == parseNullableNumber(FieldAt(fields, 6))
        explicit == parsePercent(FieldAt(fields, 7))
        derived == IF /\ explicit = <<>>
                      /\ downloadedBytes # <<>>
                      /\ totalBytes # <<>>
                      /\ totalBytes[1].num > 0
                   THEN <<Rat(downloadedBytes[1].num * 100 * totalBytes[1].den,
                              totalBytes[1].num * downloadedBytes[1].den)>>
                   ELSE explicit
        percent == IF statusRaw = "finished" THEN <<OrElse(derived, Rat(100, 1))>>
                   ELSE derived
    IN DownloadProgress(percent, totalBytes, speedBps, etaSec, downloadedBytes)

\* variant: the number of fields is not checked
parseStructuredAnyFieldCount(line) ==
    IF ~line.marker THEN Nothing ELSE StructuredSnapshot(line.fields)

parseStructuredYtDlpProgressLine(line) ==
    IF ~line.marker THEN Nothing
    ELSE IF Len(line.fields) < 7 THEN Nothing
    ELSE StructuredSnapshot(line.fields)

parseYtDlpProgressLine(line) ==
    LET structured == parseStructuredYtDlpProgressLine(line)
        text == line.text
        percent == Rat(text.figure[1], 1)
        totalBytes == IF text.of # <<>> THEN parseSize(text.of[1]) ELSE <<>>
        speedBps == IF text.at # <<>> THEN parseSpeed(text.at[1]) ELSE <<>>
        etaSec == IF text.eta # <<>> THEN parseEta(text.eta[1]) ELSE <<>>
    IN
    IF structured.kind # "none" THEN structured
    ELSE IF ~text.tag THEN Nothing
    ELSE IF text.figure = <<>> THEN Nothing
    ELSE DownloadProgress(<<percent>>, totalBytes, speedBps, etaSec,
                          IF totalBytes # <<>>
                          THEN <<Rat(totalBytes[1].num * percent.num,
                                     totalBytes[1].den * percent.den * 100)>>
                          ELSE <<>>)

\* one line is handed to the parser
InitParser ==
    /\ cfg = IdleCfg
    /\ PoolIdle
    /\ \E line \in Lines : side = [at |-> "parser", line |-> line, parsed |-> <<>>]

ParseLine ==
    /\ side.at = "parser"
    /\ side.parsed = <<>>
    /\ side' = [side EXCEPT !.parsed = <<parseYtDlpProgressLine(side.line)>>]
    /\ UNCHANGED poolVars

NextParser == ParseLine

SpecParser == InitParser /\ [][NextParser]_vars

\* the parser has returned a snapshot
Parsed == side.at = "parser" /\ side.parsed # <<>> /\ side.parsed[1].kind = "snapshot"

\* --------------------------------------------------------------- C22
\* C22: every progress snapshot produced by the parser that carries a
\* percent has 0 <= percent <= 100, in the structured grammar (explicit or
\* derived from the byte counts) and in the fallback grammar.
C22_PercentWithinRange ==
    (Parsed /\ side.parsed[1].percent # <<>>) =>
        /\ RatLeq(Rat(0, 1), side.parsed[1].percent[1])
        /\ RatLeq(side.parsed[1].percent[1], Rat(100, 1))

\* --------------------------------------------------------------- C23
\* the line has the structured marker followed by at least 7 fields
HasStructuredMarker(line) == line.marker /\ Len(line.fields) >= 7

\* the line has the fallback progress tag and a percent figure
HasFallbackProgress(line) == line.text.tag /\ line.text.figure # <<>>

\* C23: parsing is total: for every line the parser returns a snapshot or
\* nothing, and it returns nothing for every line that has neither the
\* structured marker with at least 7 fields nor the fallback progress tag
\* with a percent figure.
C23_NothingWithoutMarkers ==
    (side.at = "parser" /\ side.parsed # <<>>) =>
        /\ side.parsed[1].kind \in {"snapshot", "none"}
        /\ (~HasStructuredMarker(side.line) /\ ~HasFallbackProgress(side.line)) =>
              side.parsed[1].kind = "none"

\* nothing was returned for a line with the marker and six fields, with the
\* progress tag but no percent figure
C23_Witness ==
    /\ side.at = "parser"
    /\ side.parsed # <<>>
    /\ side.parsed[1].kind = "none"
    /\ side.line.marker
    /\ Len(side.line.fields) = 6
    /\ side.line.text.tag

\* ------------------------------------------------------------ prepare
\* quality tokens of a request
Qualities == {"best", "worst", "720p", "1080p", " 720P ", "BEST", "72p", "4k", ""}

\* quality.toLowerCase().trim() on the tokens of the model
NormalizedQuality(quality) ==
    IF quality = " 720P " THEN "720p" ELSE IF quality = "BEST" THEN "best" ELSE quality

\* normalized.match(/^(\d{3,4})p$/): the height, <<>> when there is no match
HeightTable == {<<"720p", 720>>, <<"1080p", 1080>>}

heightMatch(normalized) ==
    IF \E p \in HeightTable : p[1] = normalized
    THEN <<(CHOOSE p \in HeightTable : p[1] = normalized)[2]>>
    ELSE <<>>

\* a format selector is kept as its "/"-separated alternatives, each the
\* sequence of the streams it joins with "+"
Capped(stream, height) == stream \o "[height<=" \o ToString(height) \o "]"

\* variant: the merging selectors are used whether or not ffmpeg is there
toFormatSelectorAlwaysMerging(quality, hasFfmpeg) ==
    LET normalized == NormalizedQuality(quality) IN
    IF normalized = "worst" THEN <<<<"worstvideo", "worstaudio">>, <<"worst">>>>
    ELSE IF heightMatch(normalized) # <<>>
    THEN <<<<Capped("bestvideo", heightMatch(normalized)[1]), "bestaudio">>,
           <<Capped("best", heightMatch(normalized)[1])>>>>
    ELSE <<<<"bestvideo", "bestaudio">>, <<"best">>>>

toFormatSelector(quality, hasFfmpeg) ==
    LET normalized == NormalizedQuality(quality) IN
    IF ~hasFfmpeg
    THEN IF normalized = "worst" THEN <<<<"worst">>>>
         ELSE IF heightMatch(normalized) # <<>>
         THEN <<<<Capped("best", heightMatch(normalized)[1])>>, <<"best">>>>
         ELSE <<<<"best">>>>
    ELSE IF normalized = "best" THEN <<<<"bestvideo", "bestaudio">>, <<"best">>>>
    ELSE IF normalized = "worst" THEN <<<<"worstvideo", "worstaudio">>, <<"worst">>>>
    ELSE IF heightMatch(normalized) # <<>>
    THEN <<<<Capped("bestvideo", heightMatch(normalized)[1]), "bestaudio">>,
           <<Capped("best", heightMatch(normalized)[1])>>>>
    ELSE <<<<"bestvideo", "bestaudio">>, <<"best">>>>

\* the selector as the string handed to yt-dlp
RECURSIVE JoinWith(_, _)
JoinWith(parts, separator) ==
    IF Len(parts) = 1 THEN parts[1]
    ELSE parts[1] \o separator \o JoinWith(Tail(parts), separator)

SelectorText(selector) ==
    JoinWith([i \in 1..Len(selector) |-> JoinWith(selector[i], "+")], "/")

\* Boolean(this.#paths.ffmpegPath): an absent or empty path is false
HasFfmpeg(ffmpegPath) == ffmpegPath # <<>> /\ ffmpegPath[1] # ""

\* YtDlpStrategy.#buildArgs(job), for a strategy constructed with ffmpegPath
buildArgs(job, ffmpegPath) ==
    LET outputTemplate == IF job.request.filenameTemplate # <<>>
                          /\ job.request.filenameTemplate[1] # ""
                          THEN job.request.filenameTemplate[1] \o ".%(ext)s"
                          ELSE "%(title).180B.%(ext)s"
    IN
    <<"--newline", "--progress", "--progress-delta", "1",
      "--progress-template", "download:[vidler-progress] <template>",
      "--no-warnings", "-P", job.request.outputDir, "-o", outputTemplate,
      "-f", SelectorText(toFormatSelector(job.request.quality, HasFfmpeg(ffmpegPath)))>>
    \o (IF HasFfmpeg(ffmpegPath) THEN <<"--ffmpeg-location", ffmpegPath[1]>> ELSE <<>>)
    \o <<job.request.url>>

\* YtDlpStrategy.prepare(job), for a strategy constructed with the paths
prepare(job, ytDlpPath, ffmpegPath) ==
    [job |-> job, provider |-> job.detectedProvider, command |-> ytDlpPath,
     args |-> buildArgs(job, ffmpegPath)]

\* the jobs handed to prepare
PrepareJobs ==
    {[detectedProvider |-> provider,
      request |-> [url |-> "https://" \o provider \o ".example/v", outputDir |-> ".",
                   filenameTemplate |-> template, quality |-> quality]] :
        provider \in Providers, template \in {<<>>, <<"clip">>}, quality \in Qualities}

FfmpegPaths == {<<>>, <<"">>, <<"/cache/ffmpeg">>}

InitPrepare ==
    /\ cfg = IdleCfg
    /\ PoolIdle
    /\ \E job \in PrepareJobs, ffmpegPath \in FfmpegPaths :
          side = [at |-> "prepare", job |-> job, ffmpegPath |-> ffmpegPath,
                  prepared |-> <<>>, selector |-> <<>>]

\* strategy.prepare(job) is called; the selector is kept beside the
\* invocation in the form it had before it was joined into a string
Prepare ==
    /\ side.at = "prepare"
    /\ side.prepared = <<>>
    /\ side' = [side EXCEPT
                  !.prepared = <<prepare(side.job, "yt-dlp", side.ffmpegPath)>>,
                  !.selector = toFormatSelector(side.job.request.quality,
                                                HasFfmpeg(side.ffmpegPath))]
    /\ UNCHANGED poolVars

NextPrepare == Prepare

SpecPrepare == InitPrepare /\ [][NextPrepare]_vars

\* --------------------------------------------------------------- C30
\* the quality token is best, worst or a height of three or four digits
Recognized(quality) ==
    NormalizedQuality(quality) \in {"best", "worst"} \cup {p[1] : p \in HeightTable}

ArgsOf(prepared) == {prepared.args[i] : i \in 1..Len(prepared.args)}

\* C30: when the media-merge executable path is unset, the invocation
\* prepared for any job and quality token uses a format selector without
\* any '+' combination of streams and carries no merge-tool location
\* argument; prepare never fails on an unrecognized quality token but
\* degrades to the default selector.
C30_NoMergeWithoutFfmpeg ==
    (side.at = "prepare" /\ side.prepared # <<>>) =>
        LET prepared == side.prepared[1]
            quality == side.job.request.quality
        IN
        /\ \E i \in 1..(Len(prepared.args) - 1) :
              /\ prepared.args[i] = "-f"
              /\ prepared.args[i + 1] = SelectorText(side.selector)
        /\ side.ffmpegPath = <<>> =>
              /\ \A i \in 1..Len(side.selector) : Len(side.selector[i]) = 1
              /\ "--ffmpeg-location" \notin ArgsOf(prepared)
        /\ ~Recognized(quality) =>
              side.selector = toFormatSelector("best", HasFfmpeg(side.ffmpegPath))

\* an invocation was prepared without ffmpeg for a height token, and one
\* for an unrecognized token
C30_Witness ==
    /\ side.at = "prepare"
    /\ side.prepared # <<>>
    /\ side.ffmpegPath = <<>>
    /\ side.job.request.quality \in {"720p", "4k"}
    /\ "best" \in ArgsOf(side.prepared[1]) \/ "best[height<=720]/best" \in ArgsOf(side.prepared[1])

\* ------------------------------------------------- binaries across runs
MaxRuns == 2              \* launches of the program that share one cache directory

\* the first launch: the cache directory is empty or holds executables that
\* an earlier bootstrap wrote completely
InitBinaries ==
    /\ cfg = IdleCfg
    /\ PoolIdle
    /\ side \in [at : {"binaries"}, pc : {"ensureYtDlp"}, run : {1},
                 platform : Platforms, arch : Archs,
                 ytDlpOnPath : BOOLEAN, ytDlpCache : {"absent", "complete"},
                 ffmpegOnPath : BOOLEAN, ffmpegCache : {"absent", "complete"},
                 ytDlpBefore : {"none"}, ffmpegBefore : {"none"},
                 ytDlpPath : {"unset"}, ffmpegPath : {"unset"},
                 ytDlpFetched : {<<>>}, ffmpegFetched : {<<>>},
                 thrown : {"none"}]

\* ensureBinaries: #ensureYtDlp. The state of the cache file before the
\* call and the requests made are kept beside the result.
EnsureBinariesYtDlp(net) ==
    /\ side.at = "binaries" /\ side.pc = "ensureYtDlp"
    /\ LET r == ensureYtDlp(side.ytDlpOnPath, side.ytDlpCache, side.platform, net) IN
       side' = [side EXCEPT !.pc = IF r.threw # "none" THEN "failed" ELSE "ensureFfmpeg",
                            !.thrown = r.threw,
                            !.ytDlpBefore = side.ytDlpCache,
                            !.ytDlpCache = r.file,
                            !.ytDlpPath = r.path,
                            !.ytDlpFetched = r.fetched]
    /\ UNCHANGED poolVars

\* ensureBinaries: #ensureFfmpeg and the return
EnsureBinariesFfmpeg(net) ==
    /\ side.at = "binaries" /\ side.pc = "ensureFfmpeg"
    /\ LET r == ensureFfmpeg(side.ffmpegOnPath, side.ffmpegCache, side.platform,
                             side.arch, net) IN
       side' = [side EXCEPT !.pc = IF r.threw # "none" THEN "failed" ELSE "resolved",
                            !.thrown = r.threw,
                            !.ffmpegBefore = side.ffmpegCache,
                            !.ffmpegCache = r.file,
                            !.ffmpegPath = r.path,
                            !.ffmpegFetched = r.fetched]
    /\ UNCHANGED poolVars

\* the process has ended; the program is launched again on the same machine
Relaunch ==
    /\ side.at = "binaries" /\ side.pc \in {"failed", "resolved"}
    /\ side.run < MaxRuns
    /\ side' = [side EXCEPT !.pc = "ensureYtDlp", !.run = @ + 1, !.thrown = "none",
                            !.ytDlpBefore = "none", !.ffmpegBefore = "none",
                            !.ytDlpPath = "unset", !.ffmpegPath = "unset",
                            !.ytDlpFetched = <<>>, !.ffmpegFetched = <<>>]
    /\ UNCHANGED poolVars

NextBinaries ==
    \/ \E net \in NetOutcomes : EnsureBinariesYtDlp(net)
    \/ \E net \in NetOutcomes : EnsureBinariesFfmpeg(net)
    \/ Relaunch

SpecBinaries == InitBinaries /\ [][NextBinaries]_vars

\* --------------------------------------------------------------- C28
\* one executable was resolved in the order PATH, cache, download
ResolvedInOrder(onPath, before, path, fetched) ==
    /\ onPath => (path = "path" /\ fetched = <<>>)
    /\ (~onPath /\ before # "absent") => (path = "cache" /\ fetched = <<>>)
    /\ fetched # <<>> => (~onPath /\ before = "absent")

\* C28: each required executable is resolved in the order PATH, cache
\* directory, download: a copy on PATH is returned in preference to a cached
\* copy, a cached copy is returned without any network fetch, and a download
\* is attempted only when neither PATH nor the cache holds the executable.
C28_PathThenCacheThenDownload ==
    side.at = "binaries" =>
        /\ side.ytDlpBefore # "none" =>
              ResolvedInOrder(side.ytDlpOnPath, side.ytDlpBefore, side.ytDlpPath,
                              side.ytDlpFetched)
        /\ side.ffmpegBefore # "none" =>
              ResolvedInOrder(side.ffmpegOnPath, side.ffmpegBefore, side.ffmpegPath,
                              side.ffmpegFetched)

\* yt-dlp came from the cache without a fetch and ffmpeg, in neither place,
\* was downloaded
C28_Witness ==
    /\ side.at = "binaries"
    /\ side.pc = "resolved"
    /\ ~side.ytDlpOnPath /\ side.ytDlpBefore = "complete"
    /\ side.ytDlpPath = "cache" /\ side.ytDlpFetched = <<>>
    /\ ~side.ffmpegOnPath /\ side.ffmpegBefore = "absent"
    /\ side.ffmpegPath = "cache" /\ side.ffmpegFetched = <<"metadata", "download">>

\* --------------------------------------------------------------- C29
\* C29: a path in the cache directory is returned as a resolved executable
\* only if it was written by a bootstrap download that completed: after a
\* download that failed part-way no resolution, in the same or a later run,
\* returns the partially written cache file.
C29_CachedExecutableIsComplete ==
    side.at = "binaries" =>
        /\ side.ytDlpPath = "cache" => side.ytDlpCache = "complete"
        /\ side.ffmpegPath = "cache" => side.ffmpegCache = "complete"

\* ------------------------------------------------- the process exit code
\* the process from the start of main to its end: as InitBoot, with the
\* output mode (headless: --json, --no-progress or stdout not a TTY; ui: the
\* Ink application) and yt-dlp on PATH or to be downloaded
InitExit ==
    /\ cfg = IdleCfg
    /\ PoolIdle
    /\ side \in [at : {"boot"}, pc : {"main"},
                 input : Inputs, platform : {"linux", "freebsd"}, arch : {"x64"},
                 retries : 0..MaxRetries, timeoutSec : {0, 1}, showLog : BOOLEAN,
                 ytDlpOnPath : BOOLEAN, ytDlpCache : {"absent"},
                 ffmpegOnPath : {TRUE}, ffmpegCache : {"absent"},
                 job : {"none"}, ytDlpPath : {"unset"}, ffmpegPath : {"unset"},
                 error : {"none"}, thrownBy : {"none"}, exitCode : {0},
                 mode : {"headless", "ui"}, quit : {FALSE}]

\* createRuntime with the one job, and the output attached to the pool; the
\* state of the process is kept while the pool runs
LaunchRuntime ==
    /\ side.at = "boot" /\ side.pc = "binaries"
    /\ cfg' = [jobs |-> <<side.job>>, concurrency |-> 1, retries |-> side.retries,
               timeoutSec |-> side.timeoutSec, emitLogs |-> side.showLog]
    /\ side' = [side EXCEPT !.at = "runtime", !.pc = "running"]
    /\ UNCHANGED <<runPromise, queue, results, workerCount, wpc, wjob, wattempt,
                   child, nlines, stderrLines, timer, ev, outcomes, startOrder>>

\* the Ink application: q, escape or ctrl-c while it is mounted
Quit ==
    /\ side.at = "runtime" /\ side.pc = "running"
    /\ side.mode = "ui" /\ ~side.quit
    /\ side' = [side EXCEPT !.quit = TRUE, !.exitCode = 130]
    /\ UNCHANGED poolVars

\* what follows runtime.start(): in main for the headless output, in the
\* then/catch of the application otherwise; a rejection of start reaches
\* main().catch or the catch of the application. No other step reads the
\* exit code, so the continuation is taken as a step of its own.
AfterStart ==
    /\ side.at = "runtime" /\ side.pc = "running"
    /\ runPromise \in {"resolved", "rejected"}
    /\ side' = [side EXCEPT
                  !.pc = "exited",
                  !.exitCode =
                      IF runPromise = "rejected"
                      THEN (IF side.mode = "headless" THEN toExitCode("Error") ELSE 1)
                      ELSE IF \E i \in 1..Len(results) : ~results[i].success THEN 1
                      ELSE @]
    /\ UNCHANGED poolVars

NextExit ==
    \/ ResolveRequest
    \/ CreateJob
    \/ \E net \in NetOutcomes : EnsureYtDlp(net)
    \/ \E net \in NetOutcomes : EnsureFfmpeg(net)
    \/ LaunchRuntime
    \/ Next
    \/ Quit
    \/ AfterStart

SpecExit == InitExit /\ [][NextExit]_vars

\* --------------------------------------------------------------- C24
\* the process has ended: main threw, or the run was awaited
Ended == "exitCode" \in DOMAIN side /\ side.pc \in {"failed", "exited"}

\* C24: the process exit code is fixed by the outcome class: an
\* InvalidInputError yields 2, a DependencyError yields 3, any other error
\* yields 1, a run in which a job's Result has success = false yields 1, and
\* the exit code is 0 only when every job completed successfully.
C24_ExitCodeByOutcome ==
    Ended =>
        /\ side.error = "InvalidInputError" => side.exitCode = 2
        /\ side.error = "DependencyError" => side.exitCode = 3
        /\ side.error \notin {"none", "InvalidInputError", "DependencyError"} =>
              side.exitCode = 1
        /\ (\E i \in 1..Len(results) : ~results[i].success) => side.exitCode = 1
        /\ side.exitCode = 0 =>
              /\ side.error = "none"
              /\ runPromise = "resolved"
              /\ \A j \in Jobs : \E i \in ResultsOf(j) : results[i].success
              /\ \A i \in 1..Len(results) : results[i].success

\* a headless run has ended with exit code 1 after its job failed
C24_Witness ==
    /\ Ended
    /\ side.mode = "headless"
    /\ side.pc = "exited"
    /\ side.exitCode = 1
    /\ Len(results) = 1
    /\ ~results[1].success

\* --------------------------------------------------------------- C25
\* the state after main has created the runtime for its one job and
\* attached the headless output: --show-log is both the emitLogs of the
\* runtime and the showLogs of the output
InitHeadless ==
    /\ cfg \in [jobs : {l \in JobLists : Len(l) = 1},
                concurrency : {1},
                retries : 0..MaxRetries,
                timeoutSec : {0, 1},
                emitLogs : BOOLEAN]
    /\ PoolIdle
    /\ \E asJson \in BOOLEAN :
          side = [at |-> "runtime",
                  listeners |-> attachHeadlessOutput(asJson, cfg.emitLogs),
                  out |-> <<>>]

SpecHeadless == InitHeadless /\ [][Next]_vars

\* C25: in headless mode every lifecycle event emitted by the pool (started,
\* progress, retry, completed, failed, and log when log passthrough is
\* enabled) produces exactly one output record, in the order of emission;
\* no emitted event is dropped.
C25_OneRecordPerEvent ==
    "out" \in DOMAIN side =>
        /\ Len(side.out) = Len(ev[1])
        /\ \A i \in 1..Len(side.out) :
              /\ side.out[i].jobId = 1
              /\ side.out[i].event = EventName(ev[1][i].k)
              /\ side.out[i].payload = ev[1][i]

\* a run with log passthrough has printed a log, a retry and then a failed
\* or completed record
C25_Witness ==
    /\ "out" \in DOMAIN side
    /\ runPromise = "resolved"
    /\ \E i, k, n \in 1..Len(side.out) :
          /\ i < k /\ k < n
          /\ side.out[i].event = "jobLog"
          /\ side.out[k].event = "jobRetry"
          /\ side.out[n].event \in {"jobFailed", "jobCompleted"}

\* --------------------------------------------------------------- C32
\* a structured line was parsed: the marker and at least seven fields
StructuredParsed == Parsed /\ HasStructuredMarker(side.line)

\* the number a percent field carries, <<>> when it carries none
ExplicitPercent(token) ==
    CASE token = "  0.0%" -> <<0>>
      [] token = " 50.0%" -> <<50>>
      [] token = "150.0%" -> <<150>>
      [] OTHER -> <<>>

\* C32: in a structured snapshot the percent is the explicit percent field
\* when it carries a number; otherwise downloaded/total x 100 when both byte
\* counts are present and total > 0; otherwise 100 when the status field is
\* "finished"; otherwise absent. An explicit percent is never overridden.
C32_PercentPrecedence ==
    StructuredParsed =>
        LET snapshot == side.parsed[1]
            fields == side.line.fields
            explicit == ExplicitPercent(fields[7])
            counts == /\ snapshot.downloadedBytes # <<>>
                      /\ snapshot.totalBytes # <<>>
                      /\ snapshot.totalBytes[1].num > 0
        IN
        IF explicit # <<>>
        THEN snapshot.percent # <<>> /\ RatEq(snapshot.percent[1], Rat(explicit[1], 1))
        ELSE IF counts
        THEN /\ snapshot.percent # <<>>
             /\ snapshot.percent[1].num * snapshot.totalBytes[1].num
                   * snapshot.downloadedBytes[1].den
                = 100 * snapshot.downloadedBytes[1].num * snapshot.totalBytes[1].den
                      * snapshot.percent[1].den
        ELSE IF fields[1] = "finished"
        THEN snapshot.percent # <<>> /\ RatEq(snapshot.percent[1], Rat(100, 1))
        ELSE snapshot.percent = <<>>

\* a finished line with an explicit percent of 50 and byte counts 100 of 100
\* was parsed: the percent is 50
C32_Witness ==
    /\ StructuredParsed
    /\ side.line.fields[1] = "finished"
    /\ side.line.fields[2] = "100" /\ side.line.fields[3] = "100"
    /\ side.line.fields[7] = " 50.0%"
    /\ RatEq(side.parsed[1].percent[1], Rat(50, 1))

\* --------------------------------------------------------------- C33
\* tokens that stand for "unknown"
UnknownTokens == {"", "NA", "None"}

\* the number a byte-count field spells, for the fields that spell one
SpelledNumber(token) ==
    CASE token = "0" -> <<0>>
      [] token = "50" -> <<50>>
      [] token \in {" 100", "100"} -> <<100>>
      [] token = "150" -> <<150>>
      [] OTHER -> <<>>

C34_DownloadedAtMostTotal ==
    (Parsed /\ side.parsed[1].downloadedBytes # <<>> /\ side.parsed[1].totalBytes # <<>>) =>
        RatLeq(side.parsed[1].downloadedBytes[1], side.parsed[1].totalBytes[1])

\* ------------------------------------------------------ asset selection
MaxAssets == 2            \* assets in the release metadata

\* an asset name is kept as a stem and what follows it; the name is the two
\* joined
AssetStems == {"ffmpeg-linux-x64", "ffmpeg-win32-x64", "ffprobe-linux-x64"}

AssetTails == {"", ".exe", ".gz", ".README", ".LICENSE", ".sha256", "-v2"}

\* payload.assets: name and whether browser_download_url is set
Assets == [stem : AssetStems, tail : AssetTails, url : BOOLEAN]

AssetName(asset) == asset.stem \o asset.tail

\* name.endsWith(".exe") ? name.slice(0, -4) : name, for the candidates
CandidatePrefix(name) ==
    IF name = "ffmpeg-win32-x64.exe" THEN "ffmpeg-win32-x64" ELSE name

\* assetName.startsWith(prefix): no stem of the model is a prefix of another
startsWith(asset, prefix) == asset.stem = prefix

\* the relaxed test of one asset against one prefix
RelaxedMatch(asset, prefix) ==
    /\ asset.url
    /\ startsWith(asset, prefix)
    /\ asset.tail # ".gz"
    /\ asset.tail # ".README"
    /\ asset.tail # ".LICENSE"

\* assets.find(test): the index of the first asset that passes, 0 if none
FirstExact(assets, name) ==
    LET hits == {i \in 1..Len(assets) : AssetName(assets[i]) = name /\ assets[i].url}
    IN IF hits = {} THEN 0 ELSE CHOOSE i \in hits : \A k \in hits : i <= k

FirstRelaxed(assets, name) ==
    LET hits == {i \in 1..Len(assets) : RelaxedMatch(assets[i], CandidatePrefix(name))}
    IN IF hits = {} THEN 0 ELSE CHOOSE i \in hits : \A k \in hits : i <= k

\* the two loops over the candidates: the index of the asset whose URL is
\* returned, 0 for undefined
RECURSIVE ExactLoop(_, _)
ExactLoop(candidates, assets) ==
    IF candidates = <<>> THEN 0
    ELSE IF FirstExact(assets, Head(candidates)) # 0
    THEN FirstExact(assets, Head(candidates))
    ELSE ExactLoop(Tail(candidates), assets)

RECURSIVE RelaxedLoop(_, _)
RelaxedLoop(candidates, assets) ==
    IF candidates = <<>> THEN 0
    ELSE IF FirstRelaxed(assets, Head(candidates)) # 0
    THEN FirstRelaxed(assets, Head(candidates))
    ELSE RelaxedLoop(Tail(candidates), assets)

selectAsset(candidates, assets) ==
    IF ExactLoop(candidates, assets) # 0 THEN ExactLoop(candidates, assets)
    ELSE RelaxedLoop(candidates, assets)

\* the release metadata has arrived, for a platform with candidates
InitAssets ==
    /\ cfg = IdleCfg
    /\ PoolIdle
    /\ \E platform \in {"linux", "win32"}, assets \in SeqsUpTo(Assets, MaxAssets) :
          side = [at |-> "assets", candidates |-> ffmpegAssetCandidates(platform, "x64"),
                  assets |-> assets, selected |-> -1]

SelectAsset ==
    /\ side.at = "assets"
    /\ side.selected = -1
    /\ side' = [side EXCEPT !.selected = selectAsset(side.candidates, side.assets)]
    /\ UNCHANGED poolVars

NextAssets == SelectAsset

SpecAssets == InitAssets /\ [][NextAssets]_vars

\* --------------------------------------------------------------- C37
\* asset i bears the name of a candidate and has a URL
ExactlyNamed(i) ==
    /\ side.assets[i].url
    /\ \E c \in 1..Len(side.candidates) : AssetName(side.assets[i]) = side.candidates[c]

\* C37: asset selection returns an exactly-named asset whenever any
\* candidate has one, even if an earlier candidate only has a relaxed match;
\* a relaxed match is used only when no candidate matches exactly, and it
\* never selects a checksum, license or readme file.
C37_ExactFirstAndNoArtifacts ==
    (side.at = "assets" /\ side.selected # -1) =>
        /\ (\E i \in 1..Len(side.assets) : ExactlyNamed(i)) =>
              (side.selected # 0 /\ ExactlyNamed(side.selected))
        /\ side.selected # 0 =>
              /\ side.assets[side.selected].url
              /\ side.assets[side.selected].tail \notin {".sha256", ".LICENSE", ".README"}

\* --------------------------------------------------------------- C35
\* the log events of job j that carry a line of its subprocess
LineLogs(j) == {i \in Positions(j, {"log"}) : ev[j][i].d \in {"stdout", "stderr"}}

\* C35: with raw-log passthrough enabled every stdout and stderr line of a
\* job's subprocess produces a log event for that job, whether the job was
\* resolved to a provider-bound adapter or to the fallback adapter; with
\* passthrough disabled no log event is emitted.
C35_EveryLineIsLogged ==
    \A j \in Jobs :
        IF cfg.emitLogs THEN Cardinality(LineLogs(j)) = nlines[j]
        ELSE Positions(j, {"log"}) = {}

\* --------------------------------------------------------------- C40
\* what one step does to attempt a of job j
DecidesOnce(j, a) ==
    \* the timeout expires first: a timed-out failure of that attempt
    /\ (child[j][a] # "killed" /\ child'[j][a] = "killed") =>
          /\ outcomes'[j] = Append(outcomes[j], "retryable")
          /\ Len(outcomes'[j]) = a
          /\ ev'[j][Len(ev'[j])].k \in {"retry", "failed"}
          /\ ev'[j][Len(ev'[j])].a = a
          /\ ev'[j][Len(ev'[j])].d = "Download timed out"
    \* the close that comes after the timeout decides nothing
    /\ (child[j][a] = "killed" /\ child'[j][a] = "exited") =>
          /\ outcomes' = outcomes
          /\ results' = results
          /\ ev' = ev
    \* the close or the spawn error comes first: it decides, the timer is off
    /\ (child[j][a] \in {"spawned", "running"} /\ child'[j][a] = "exited") =>
          /\ Len(outcomes'[j]) = a
          /\ Len(outcomes[j]) = a - 1
          /\ ~timer'[j]
    \* an outcome, once decided, stays
    /\ Len(outcomes'[j]) \in {Len(outcomes[j]), Len(outcomes[j]) + 1}
    /\ \A i \in 1..Len(outcomes[j]) : outcomes'[j][i] = outcomes[j][i]

\* C40: the outcome of one download attempt is decided exactly once by
\* whichever of timeout expiry, spawn error or subprocess close happens
\* first: after the timeout the attempt is a timed-out failure even if the
\* subprocess later closes with code 0, and a later close never produces a
\* success or a second outcome; if the subprocess closes first the timer is
\* cancelled and never fails the attempt.
C40_FirstSignalDecides ==
    [][\A j \in Jobs, a \in 1..AttemptBound : DecidesOnce(j, a)]_vars

\* the timeout failed attempt a of job j and its subprocess has closed since
C40_Witness ==
    \E j \in Jobs, a \in 1..AttemptBound :
        /\ child[j][a] = "exited"
        /\ \E i \in 1..Len(ev[j]) :
              /\ ev[j][i].k \in {"retry", "failed"}
              /\ ev[j][i].a = a
              /\ ev[j][i].d = "Download timed out"

\* --------------------------------------------------------------- C31
\* the runJob calls of job j that got as far as prepare: each announces
\* itself with the "preparing" progress event
Prepares(j) == {i \in Positions(j, {"progress"}) : ev[j][i].d = "preparing"}

\* the attempts of job j whose download call spawned a subprocess
Downloads(j) == {a \in 1..AttemptBound : child[j][a] # "none"}

MaxCallers == 2           \* calls of start after the first

\* variant: start runs the pool on every call
NotStartedAlways(promise) == TRUE

\* if (!runPromise)
NotStarted(promise) == promise = "none"

\* the runtime is created; the calls of start after the first are recorded
\* in side: which run's promise each was handed (0 is the first run) and
\* the state of that promise at the call
InitRestart ==
    /\ cfg \in [jobs : JobLists,
                concurrency : 1..MaxConcurrency,
                retries : 0..MaxRetries,
                timeoutSec : {1},
                emitLogs : {FALSE}]
    /\ PoolIdle
    /\ side = [at |-> "runtime", handles |-> <<>>, reruns |-> 0]

\* runtime.start(), a later call: runPromise is set, so the call returns it.
\* Were the pool run again, the new run would start the first jobs anew.
StartAgain ==
    /\ runPromise # "none"
    /\ Len(side.handles) < MaxCallers
    /\ IF NotStarted(runPromise)
       THEN LET wc == WorkerCount(cfg.concurrency, Len(cfg.jobs)) IN
            /\ ev' = [j \in 1..JobSlots |->
                        IF j <= wc /\ j <= Len(cfg.jobs)
                        THEN ev[j] \o StartEvents(j, 1) ELSE ev[j]]
            /\ side' = [side EXCEPT !.reruns = @ + 1,
                                    !.handles = Append(@, [run |-> side.reruns + 1,
                                                           state |-> "pending"])]
       ELSE /\ ev' = ev
            /\ side' = [side EXCEPT !.handles = Append(@, [run |-> side.reruns,
                                                           state |-> runPromise])]
    /\ UNCHANGED <<cfg, runPromise, queue, results, workerCount, wpc, wjob, wattempt,
                   child, nlines, stderrLines, timer, outcomes, startOrder>>

NextRestart == Next \/ StartAgain

SpecRestart == InitRestart /\ [][NextRestart]_vars

\* --------------------------------------------------------------- C38
\* C38: start is idempotent: however often and whenever it is called, the
\* pool is run at most once, every job is executed by that single run, and
\* every caller receives the results of that same run.
C38_StartIsIdempotent ==
    "handles" \in DOMAIN side =>
        /\ side.reruns = 0
        /\ \A i \in 1..Len(side.handles) : side.handles[i].run = 0
        /\ \A j \in Jobs :
              Cardinality({i \in Positions(j, {"started"}) : ev[j][i].a = 1}) <= 1
        /\ runPromise = "resolved" =>
              /\ Len(results) = Len(cfg.jobs)
              /\ \A j \in Jobs :
                    Cardinality({i \in 1..Len(results) : results[i].jobId = j}) = 1

\* start was called again while the run was pending and once more after it
\* had resolved with the results of two jobs
C38_Witness ==
    /\ "handles" \in DOMAIN side
    /\ Len(side.handles) = 2
    /\ side.handles[1].state = "pending"
    /\ side.handles[2].state = "resolved"
    /\ Len(results) = 2

\* -------------------------------------------------------- stderr excerpt
MaxStderr == 6            \* stderr lines of one attempt

\* new DownloadError(message, retryable, stderrSnippet): the excerpt is
\* optional, <<>> when the constructor gets none
DownloadErrorWithSnippet(message, retryable, stderrSnippet) ==
    [vidler |-> TRUE, isError |-> TRUE, retryable |-> retryable, message |-> message,
     stderrSnippet |-> stderrSnippet]

\* variant: the lines of the earlier download calls are kept
StderrLinesKept(earlier) == earlier

\* const stderrLines: string[] = [] at the head of every download call
StderrLinesOfCall(earlier) == <<>>

\* one job of a pool with `retries`, in its first attempt: the download call
\* is pending, its subprocess has printed nothing. printed keeps, per
\* attempt, the lines the subprocess of that attempt printed on stderr;
\* errors keeps the error each failed attempt rejected with.
InitExcerpt ==
    /\ cfg = IdleCfg
    /\ PoolIdle
    /\ \E retries \in 0..MaxRetries :
          side = [at |-> "excerpt", retries |-> retries, attempt |-> 1,
                  phase |-> "awaiting", stderrLines |-> <<>>, printed |-> <<<<>>>>,
                  errors |-> <<>>, result |-> <<>>]

\* the catch block of #runWithRetry for the one job of side
ExcerptCaught(error) ==
    IF CatchDecision(error, side.attempt, MaxAttempts(side.retries)) = "retry"
    THEN side' = [side EXCEPT !.phase = "backoff", !.errors = Append(@, error)]
    ELSE side' = [side EXCEPT !.phase = "done", !.errors = Append(@, error),
                              !.result = <<[success |-> FALSE, attempts |-> side.attempt,
                                            errorMessage |-> Reason(error)]>>]

\* stderrReader 'line' handler: stderrLines.push(line)
ExcerptStderrLine(line) ==
    /\ side.at = "excerpt"
    /\ side.phase = "awaiting"
    /\ Len(side.printed[side.attempt]) < MaxStderr
    /\ side' = [side EXCEPT !.stderrLines = Append(@, line),
                            !.printed[side.attempt] = Append(@, line)]
    /\ UNCHANGED poolVars

\* child 'close' handler of the pending download call
ExcerptClose(code) ==
    /\ side.at = "excerpt"
    /\ side.phase = "awaiting"
    /\ LET snippet == StderrSnippet(side.stderrLines) IN
       IF code = 0
       THEN side' = [side EXCEPT !.phase = "done",
                                 !.result = <<[success |-> TRUE, attempts |-> side.attempt,
                                               errorMessage |-> ""]>>]
       ELSE ExcerptCaught(DownloadErrorWithSnippet(buildYtDlpErrorMessage(code, snippet),
                                                   isRetryableStderr(snippet),
                                                   <<snippet>>))
    /\ UNCHANGED poolVars

\* the setTimeout callback of the pending download call
ExcerptTimeout ==
    /\ side.at = "excerpt"
    /\ side.phase = "awaiting"
    /\ ExcerptCaught(DownloadErrorWithSnippet(TimeoutError.message, TimeoutError.retryable,
                                              <<>>))
    /\ UNCHANGED poolVars

\* the delay ends: the next pass of the loop, up to the spawn of its
\* download call
ExcerptBackoffDone ==
    /\ side.at = "excerpt"
    /\ side.phase = "backoff"
    /\ side' = [side EXCEPT !.phase = "awaiting", !.attempt = @ + 1,
                            !.stderrLines = StderrLinesOfCall(@),
                            !.printed = Append(@, <<>>)]
    /\ UNCHANGED poolVars

NextExcerpt ==
    \/ \E line \in StderrVocabulary : ExcerptStderrLine(line)
    \/ \E code \in ExitCodes : ExcerptClose(code)
    \/ ExcerptTimeout
    \/ ExcerptBackoffDone

SpecExcerpt == InitExcerpt /\ [][NextExcerpt]_vars

\* --------------------------------------------------------------- C36
\* excerpt is the last lines of printed, five of them or all if fewer
IsTailOf(excerpt, printed) ==
    /\ Len(excerpt) = Min(5, Len(printed))
    /\ \A i \in 1..Len(excerpt) : excerpt[i] = printed[Len(printed) - Len(excerpt) + i]

\* C36: the error of a failed attempt carries a stderr excerpt of at most
\* the last 5 stderr lines of that same attempt, never lines of an earlier
\* attempt of the job, and the terminal failed Result of the job carries the
\* message of the last attempt's error.
C36_ExcerptOfOwnAttempt ==
    side.at = "excerpt" =>
        /\ \A a \in 1..Len(side.errors) :
              side.errors[a].stderrSnippet # <<>> =>
                  /\ Len(side.errors[a].stderrSnippet[1]) <= 5
                  /\ IsTailOf(side.errors[a].stderrSnippet[1], side.printed[a])
        /\ (side.result # <<>> /\ ~side.result[1].success) =>
              /\ side.result[1].attempts = Len(side.errors)
              /\ side.result[1].errorMessage = side.errors[Len(side.errors)].message

\* the job failed in its second attempt, whose subprocess printed more than
\* five lines after the first attempt had printed some
C36_Witness ==
    /\ side.at = "excerpt"
    /\ side.result # <<>>
    /\ ~side.result[1].success
    /\ Len(side.errors) = 2
    /\ Len(side.printed[1]) > 0
    /\ Len(side.printed[2]) > 5
    /\ side.errors[2].stderrSnippet # <<>>

\* ------------------------------------------------------------- progress
\* the pending attempt of job j ends: its subprocess closes or fails to
\* spawn, or its timeout expires
AttemptEnds(j) ==
    /\ j \in Jobs
    /\ Pending(j) # 0
    /\ \/ \E code \in ExitCodes : ChildClose(j, wattempt[Pending(j)], code)
       \/ ChildError(j, wattempt[Pending(j)])
       \/ TimerFire(j)

\* the timer of worker w's delay fires
DelayEnds(w) == w \in Workers /\ BackoffDone(w)

\* the pool under the assumption that every attempt ends, with the event
\* loop running every timer that is due
SpecLive ==
    /\ Init
    /\ [][Next]_vars
    /\ \A j \in 1..MaxJobs : WF_vars(AttemptEnds(j))
    /\ \A w \in 1..MaxConcurrency : WF_vars(DelayEnds(w))

\* --------------------------------------------------------------- C39
\* every job has had its terminal event, nothing is queued or in backoff
AllJobsTerminal ==
    /\ queue = <<>>
    /\ \A w \in Workers : wpc[w] = "done"
    /\ \A j \in Jobs : Positions(j, TerminalKinds) # {}

\* C39: if every attempt of every job eventually ends, WorkerPool.run
\* eventually resolves, and it resolves only after every input job has had
\* its terminal event; no job is left in the queue or in backoff forever.
C39_RunResolves ==
    /\ (runPromise # "none") ~> (runPromise = "resolved")
    /\ [](runPromise = "resolved" => AllJobsTerminal)

\* the run resolved after one worker had taken a second job from the queue
\* and a job had waited out a backoff
C39_Witness ==
    /\ runPromise = "resolved"
    /\ Len(cfg.jobs) = 2
    /\ workerCount = 1
    /\ \E j \in Jobs : Count(j, "retry") > 0
====
